---- MODULE Spec2Model ----
(***************************************************************************)
(* A model of the webhook handler of majewsky/shove: Handler.ServeHTTP,    *)
(* its two signature checks and the event decoders it calls.               *)
(*                                                                         *)
(* Header values are sequences of one-character strings, so that           *)
(* strings.TrimSpace, len() and hmac.Equal act on them as in the code.     *)
(* A request body is the record [text, len]: the JSON text it starts with  *)
(* and its length in bytes, the bytes after the text being spaces.  The    *)
(* HMACs of the model's keys and bodies are the real HMAC-SHA1 and         *)
(* HMAC-SHA256 values, tabulated as bytes.                                 *)
(***************************************************************************)
EXTENDS Integers, Sequences, FiniteSets, TLC

VARIABLES h, reqs, served, callbackCount, okCount, prev, cli, probe

vars == <<h, reqs, served, callbackCount, okCount, prev, cli, probe>>

(***************************************************************************)
(* Bounds of the model.                                                    *)
(***************************************************************************)
\* requests delivered in one behaviour
MaxRequests == 3

(***************************************************************************)
(* Program constants.                                                      *)
(***************************************************************************)
\* io.LimitReader(r.Body, 25<<20)
BodyLimit == 26214400
\* len(signature) != 45: 40 hex digits plus the "sha1=" prefix
GitHubSignatureLen == 45
\* len(signature) != 64: 64 hex digits, without any prefix
GiteaSignatureLen == 64

StatusNoContent == 204
StatusBadRequest == 400
StatusUnauthorized == 401
StatusMethodNotAllowed == 405
StatusInternalServerError == 500
StatusNotImplemented == 501

\* the nil error and the nil Event
NoError == "<nil>"
NilEvent == [type |-> "<nil>", HookID |-> 0]

errNoSignature == "missing signature header (X-Hub-Signature or X-Gitea-Signature)"
errInvalidSignature == "invalid signature header"

(***************************************************************************)
(* Strings as character sequences.                                         *)
(***************************************************************************)
WhiteSpace == {" ", "\t", "\n", "\r"}

RECURSIVE TrimLeft(_)
TrimLeft(s) ==
    IF s # <<>> /\ Head(s) \in WhiteSpace THEN TrimLeft(Tail(s)) ELSE s

RECURSIVE TrimRight(_)
TrimRight(s) ==
    IF s # <<>> /\ s[Len(s)] \in WhiteSpace
    THEN TrimRight(SubSeq(s, 1, Len(s) - 1))
    ELSE s

\* strings.TrimSpace
TrimSpace(s) == TrimRight(TrimLeft(s))

HexDigits ==
    <<"0", "1", "2", "3", "4", "5", "6", "7",
      "8", "9", "a", "b", "c", "d", "e", "f">>

\* hex.EncodeToString: two lower-case hex digits per byte, high nibble first
HexEncodeToString(bytes) ==
    LET digit(i) ==
            IF i % 2 = 1
            THEN HexDigits[(bytes[(i + 1) \div 2] \div 16) + 1]
            ELSE HexDigits[(bytes[i \div 2] % 16) + 1]
    IN  SubSeq([i \in 1..(2 * Len(bytes)) |-> digit(i)], 1, 2 * Len(bytes))

\* HmacEqual leaving out the last byte
HmacEqual_AllButLast(a, b) ==
    /\ Len(a) = Len(b)
    /\ \A i \in 1..(Len(a) - 1) : a[i] = b[i]

\* hmac.Equal: equal lengths and equal bytes (in constant time)
HmacEqual(a, b) ==
    /\ Len(a) = Len(b)
    /\ \A i \in 1..Len(a) : a[i] = b[i]

(***************************************************************************)
(* Request bodies and what reading them yields.                            *)
(***************************************************************************)
\* {"hook_id":42}
Body42 == [text |-> "{\"hook_id\":42}", len |-> 14]
\* {"hook_id":"foobar"}
BodyFoobar == [text |-> "{\"hook_id\":\"foobar\"}", len |-> 20]
\* {"hook_id":42} followed by spaces, one byte longer than the limit
BodyHuge == [text |-> "{\"hook_id\":42}", len |-> BodyLimit + 1]

\* {"ref":"refs/heads/master","after":"c0ffee","repository":{"name":"bar","owner":{"name":"foo"}}}
BodyPushBar ==
    [text |-> "{\"ref\":\"refs/heads/master\",\"after\":\"c0ffee\",\"repository\":{\"name\":\"bar\",\"owner\":{\"name\":\"foo\"}}}",
     len |-> 95]
\* {"ref":"refs/tags/v1","after":"c0ffee","repository":{"name":"baz","owner":{"name":"foo"}}}
BodyPushTag ==
    [text |-> "{\"ref\":\"refs/tags/v1\",\"after\":\"c0ffee\",\"repository\":{\"name\":\"baz\",\"owner\":{\"name\":\"foo\"}}}",
     len |-> 90]
\* {"ref":42}
BodyPushBad ==
    [text |-> "{\"ref\":42}",
     len |-> 10]

NoBody == [text |-> "", len |-> 0]

\* LimitReader without the limit
LimitReader_NoLimit(b) == b

\* io.LimitReader(r.Body, 25<<20): reading stops, without an error, after
\* BodyLimit bytes
LimitReader(b) ==
    [text |-> b.text, len |-> IF b.len > BodyLimit THEN BodyLimit ELSE b.len]

\* ioutil.ReadAll(bodyReader): the bytes the reader yields, or the error of
\* the underlying read
ReadAll(b, readErr) ==
    IF readErr # NoError
    THEN [body |-> NoBody, err |-> readErr]
    ELSE [body |-> LimitReader(b), err |-> NoError]

(***************************************************************************)
(* HMAC.  The digests of the model's keys and bodies, as computed by       *)
(* crypto/hmac with crypto/sha1 and crypto/sha256.                         *)
(***************************************************************************)
Keys == {"verysecret", "othersecret"}

\* hmac.New(sha1.New, key); mac.Write(body); mac.Sum(nil)
HmacSha1(key, body) ==
    CASE key = "verysecret" /\ body = Body42 ->
           <<113, 101, 44, 53, 112, 156, 202, 236, 95, 177,
             222, 147, 197, 118, 210, 122, 180, 50, 82, 115>>
      [] key = "verysecret" /\ body = BodyFoobar ->
           <<108, 211, 88, 91, 144, 158, 211, 156, 161, 16,
             127, 137, 11, 52, 56, 224, 208, 181, 176, 77>>
      [] key = "verysecret" /\ body = LimitReader(BodyHuge) ->
           <<235, 58, 16, 227, 9, 146, 52, 30, 129, 15,
             173, 232, 200, 154, 33, 200, 126, 240, 42, 52>>
      [] key = "verysecret" /\ body = BodyHuge ->
           <<228, 113, 249, 211, 90, 46, 212, 244, 139, 21,
             173, 76, 217, 147, 191, 51, 25, 63, 198, 219>>
      [] key = "othersecret" /\ body = Body42 ->
           <<46, 199, 213, 171, 17, 57, 73, 173, 92, 173,
             34, 203, 2, 13, 96, 225, 225, 171, 207, 48>>
      [] key = "othersecret" /\ body = BodyFoobar ->
           <<31, 85, 252, 216, 161, 249, 88, 219, 93, 57,
             27, 178, 44, 77, 100, 147, 28, 135, 189, 133>>
      [] key = "othersecret" /\ body = LimitReader(BodyHuge) ->
           <<196, 115, 131, 7, 13, 105, 186, 75, 194, 226,
             83, 238, 30, 93, 13, 85, 4, 198, 59, 22>>
      [] key = "othersecret" /\ body = BodyHuge ->
           <<150, 62, 64, 167, 71, 95, 98, 121, 53, 76,
             178, 13, 250, 239, 111, 136, 80, 45, 60, 56>>
      [] key = "verysecret" /\ body = BodyPushBar ->
           <<241, 218, 72, 108, 182, 66, 197, 86, 125, 188,
             81, 63, 150, 107, 168, 253, 9, 210, 181, 83>>
      [] key = "verysecret" /\ body = BodyPushTag ->
           <<150, 50, 251, 100, 120, 22, 225, 0, 142, 198,
             102, 195, 190, 219, 214, 72, 82, 82, 203, 37>>
      [] key = "verysecret" /\ body = BodyPushBad ->
           <<181, 1, 253, 181, 96, 209, 113, 39, 9, 105,
             15, 193, 163, 49, 49, 94, 45, 108, 18, 118>>
      [] key = "othersecret" /\ body = BodyPushBar ->
           <<108, 53, 239, 105, 148, 99, 108, 144, 77, 100,
             196, 8, 98, 18, 72, 11, 106, 231, 142, 81>>
      [] key = "othersecret" /\ body = BodyPushTag ->
           <<26, 250, 95, 50, 226, 220, 180, 225, 241, 195,
             11, 75, 204, 58, 254, 108, 196, 69, 129, 49>>
      [] key = "othersecret" /\ body = BodyPushBad ->
           <<156, 236, 131, 210, 121, 67, 148, 157, 163, 69,
             160, 156, 153, 207, 59, 247, 164, 4, 200, 19>>

\* hmac.New(sha256.New, key); mac.Write(body); mac.Sum(nil)
HmacSha256(key, body) ==
    CASE key = "verysecret" /\ body = Body42 ->
           <<99, 232, 144, 94, 210, 15, 164, 206, 245, 177, 190,
             93, 198, 161, 17, 97, 91, 4, 225, 247, 255, 196,
             55, 22, 173, 229, 183, 178, 127, 147, 177, 125>>
      [] key = "verysecret" /\ body = BodyFoobar ->
           <<128, 227, 193, 68, 174, 99, 11, 139, 29, 39, 224,
             190, 184, 197, 124, 79, 28, 128, 97, 203, 152, 220,
             214, 144, 136, 113, 189, 11, 206, 222, 26, 195>>
      [] key = "verysecret" /\ body = LimitReader(BodyHuge) ->
           <<141, 37, 217, 151, 16, 247, 84, 246, 91, 67, 123,
             172, 175, 95, 58, 38, 31, 113, 50, 85, 58, 142,
             112, 88, 18, 237, 239, 170, 194, 212, 24, 74>>
      [] key = "verysecret" /\ body = BodyHuge ->
           <<17, 47, 39, 1, 16, 154, 16, 188, 80, 73, 218,
             231, 87, 160, 241, 163, 67, 62, 15, 92, 230, 49,
             144, 38, 89, 145, 188, 112, 227, 71, 71, 65>>
      [] key = "othersecret" /\ body = Body42 ->
           <<157, 131, 212, 143, 252, 91, 75, 78, 143, 204, 244,
             94, 236, 131, 6, 200, 61, 62, 182, 72, 30, 150,
             64, 113, 116, 114, 255, 38, 172, 239, 39, 14>>
      [] key = "othersecret" /\ body = BodyFoobar ->
           <<63, 195, 72, 67, 193, 250, 5, 170, 204, 46, 240,
             8, 229, 51, 95, 76, 148, 231, 142, 78, 24, 110,
             220, 51, 77, 26, 185, 132, 1, 74, 195, 189>>
      [] key = "othersecret" /\ body = LimitReader(BodyHuge) ->
           <<83, 118, 236, 102, 210, 205, 216, 10, 27, 229, 137,
             225, 219, 1, 28, 78, 55, 177, 165, 206, 11, 99,
             104, 161, 52, 119, 124, 182, 202, 121, 23, 96>>
      [] key = "othersecret" /\ body = BodyHuge ->
           <<197, 6, 245, 245, 27, 75, 205, 19, 85, 151, 253,
             150, 255, 239, 98, 213, 229, 141, 225, 217, 22, 136,
             198, 39, 131, 88, 65, 176, 115, 29, 86, 204>>
      [] key = "verysecret" /\ body = BodyPushBar ->
           <<255, 118, 141, 222, 8, 169, 64, 91, 224, 125, 42,
             242, 254, 94, 95, 9, 118, 208, 179, 155, 217, 12,
             138, 15, 123, 107, 208, 181, 168, 70, 172, 212>>
      [] key = "verysecret" /\ body = BodyPushTag ->
           <<141, 9, 230, 48, 200, 51, 26, 125, 190, 250, 49,
             239, 43, 34, 140, 43, 95, 148, 184, 51, 52, 208,
             11, 130, 5, 29, 24, 225, 207, 161, 104, 196>>
      [] key = "verysecret" /\ body = BodyPushBad ->
           <<196, 3, 89, 207, 77, 60, 217, 102, 251, 171, 132,
             223, 47, 181, 108, 43, 35, 222, 233, 188, 102, 220,
             7, 244, 98, 47, 229, 79, 52, 53, 171, 1>>
      [] key = "othersecret" /\ body = BodyPushBar ->
           <<61, 181, 189, 210, 95, 13, 24, 86, 23, 18, 139,
             69, 71, 173, 200, 123, 49, 219, 189, 172, 252, 96,
             143, 3, 177, 55, 145, 184, 125, 229, 163, 212>>
      [] key = "othersecret" /\ body = BodyPushTag ->
           <<243, 159, 251, 154, 232, 80, 160, 209, 231, 97, 61,
             176, 254, 230, 193, 107, 250, 232, 24, 221, 200, 157,
             186, 219, 152, 132, 82, 179, 170, 23, 115, 224>>
      [] key = "othersecret" /\ body = BodyPushBad ->
           <<4, 64, 243, 174, 94, 239, 169, 247, 124, 139, 143,
             158, 103, 142, 168, 227, 32, 89, 3, 214, 43, 168,
             52, 31, 78, 132, 59, 105, 144, 243, 170, 127>>

(***************************************************************************)
(* The signature checks.  Each returns the error of the check and whether  *)
(* it went as far as computing the HMAC.                                   *)
(***************************************************************************)
Sha1Prefix == <<"s", "h", "a", "1", "=">>

\* checkGitHubSignature without strings.TrimSpace
checkGitHubSignature_NoTrim(hd, r, body) ==
    LET signature == r.Hub
        expectedSignature ==
            Sha1Prefix \o HexEncodeToString(HmacSha1(hd.SecretKey, body))
    IN  IF signature = <<>>
        THEN [err |-> errNoSignature, mac |-> FALSE]
        ELSE IF Len(signature) # GitHubSignatureLen
        THEN [err |-> errInvalidSignature, mac |-> FALSE]
        ELSE IF ~HmacEqual(signature, expectedSignature)
        THEN [err |-> errInvalidSignature, mac |-> TRUE]
        ELSE [err |-> NoError, mac |-> TRUE]

\* func (h Handler) checkGitHubSignature(r, body) error
checkGitHubSignature(hd, r, body) ==
    LET signature == TrimSpace(r.Hub)
        expectedSignature ==
            Sha1Prefix \o HexEncodeToString(HmacSha1(hd.SecretKey, body))
    IN  IF signature = <<>>
        THEN [err |-> errNoSignature, mac |-> FALSE]
        ELSE IF Len(signature) # GitHubSignatureLen
        THEN [err |-> errInvalidSignature, mac |-> FALSE]
        ELSE IF ~HmacEqual(signature, expectedSignature)
        THEN [err |-> errInvalidSignature, mac |-> TRUE]
        ELSE [err |-> NoError, mac |-> TRUE]

\* checkGiteaSignature without strings.TrimSpace
checkGiteaSignature_NoTrim(hd, r, body) ==
    LET signature == r.Gitea
        expectedSignature == HexEncodeToString(HmacSha256(hd.SecretKey, body))
    IN  IF signature = <<>>
        THEN [err |-> errNoSignature, mac |-> FALSE]
        ELSE IF Len(signature) # GiteaSignatureLen
        THEN [err |-> errInvalidSignature, mac |-> FALSE]
        ELSE IF ~HmacEqual(signature, expectedSignature)
        THEN [err |-> errInvalidSignature, mac |-> TRUE]
        ELSE [err |-> NoError, mac |-> TRUE]

\* checkGiteaSignature with the hash function of the GitHub scheme
checkGiteaSignature_Sha1(hd, r, body) ==
    LET signature == TrimSpace(r.Gitea)
        expectedSignature == HexEncodeToString(HmacSha1(hd.SecretKey, body))
    IN  IF signature = <<>>
        THEN [err |-> errNoSignature, mac |-> FALSE]
        ELSE IF Len(signature) # GiteaSignatureLen
        THEN [err |-> errInvalidSignature, mac |-> FALSE]
        ELSE IF ~HmacEqual(signature, expectedSignature)
        THEN [err |-> errInvalidSignature, mac |-> TRUE]
        ELSE [err |-> NoError, mac |-> TRUE]

\* checkGiteaSignature computing the HMAC before it looks at the length
checkGiteaSignature_MacBeforeLength(hd, r, body) ==
    LET signature == TrimSpace(r.Gitea)
        expectedSignature == HexEncodeToString(HmacSha256(hd.SecretKey, body))
    IN  IF signature = <<>>
        THEN [err |-> errNoSignature, mac |-> FALSE]
        ELSE IF ~HmacEqual(signature, expectedSignature)
        THEN [err |-> errInvalidSignature, mac |-> TRUE]
        ELSE [err |-> NoError, mac |-> TRUE]

\* checkGiteaSignature comparing only as many bytes as the header has
checkGiteaSignature_PrefixCompare(hd, r, body) ==
    LET signature == TrimSpace(r.Gitea)
        expectedSignature == HexEncodeToString(HmacSha256(hd.SecretKey, body))
    IN  IF signature = <<>>
        THEN [err |-> errNoSignature, mac |-> FALSE]
        ELSE IF Len(signature) > GiteaSignatureLen
        THEN [err |-> errInvalidSignature, mac |-> FALSE]
        ELSE IF ~HmacEqual(signature, SubSeq(expectedSignature, 1, Len(signature)))
        THEN [err |-> errInvalidSignature, mac |-> TRUE]
        ELSE [err |-> NoError, mac |-> TRUE]

\* func (h Handler) checkGiteaSignature(r, body) error
checkGiteaSignature(hd, r, body) ==
    LET signature == TrimSpace(r.Gitea)
        expectedSignature == HexEncodeToString(HmacSha256(hd.SecretKey, body))
    IN  IF signature = <<>>
        THEN [err |-> errNoSignature, mac |-> FALSE]
        ELSE IF Len(signature) # GiteaSignatureLen
        THEN [err |-> errInvalidSignature, mac |-> FALSE]
        ELSE IF ~HmacEqual(signature, expectedSignature)
        THEN [err |-> errInvalidSignature, mac |-> TRUE]
        ELSE [err |-> NoError, mac |-> TRUE]

(***************************************************************************)
(* Events and decoders.                                                    *)
(***************************************************************************)
\* MinimalPingEvent{}
MinimalPingEvent == [type |-> "MinimalPingEvent", HookID |-> 0]

\* testEvent{HookID: n}
testEvent(n) == [type |-> "testEvent", HookID |-> n]

errUnmarshalString ==
    "json: cannot unmarshal string into Go struct field testEvent.hook_id of type int"

\* the value of the "hook_id" member of a JSON text (white space after the
\* text is not part of it)
JsonHookID(text) ==
    CASE text = "{\"hook_id\":42}" -> [kind |-> "number", num |-> 42]
      [] text = "{\"hook_id\":\"foobar\"}" -> [kind |-> "string", num |-> 0]

\* e := testEvent{}; err := json.Unmarshal(payload, &e): a number is stored
\* in HookID, anything else leaves e as it was and is an error
JsonUnmarshalTestEvent(payload) ==
    LET v == JsonHookID(payload.text)
    IN  IF v.kind = "number"
        THEN [event |-> testEvent(v.num), err |-> NoError]
        ELSE [event |-> testEvent(0), err |-> errUnmarshalString]

\* the EventDecoder of TestHandler
TestEventDecoder(eventType, payload) ==
    IF eventType = "ping"
    THEN JsonUnmarshalTestEvent(payload)
    ELSE [event |-> NilEvent, err |-> NoError]

\* func MinimalEventDecoder(eventType, payload) (Event, error)
MinimalEventDecoder(eventType, payload) ==
    IF eventType = "ping"
    THEN [event |-> MinimalPingEvent, err |-> NoError]
    ELSE [event |-> NilEvent, err |-> NoError]

(***************************************************************************)
(* The events of the command-line program.  Its strings are character      *)
(* sequences, so that +, strings.HasPrefix and strings.TrimPrefix act on    *)
(* them as in the code.                                                     *)
(***************************************************************************)
TypePush == <<"p", "u", "s", "h">>
TypeShoveStartup == <<"s", "h", "o", "v", "e", "-", "s", "t", "a", "r", "t", "u", "p">>
TypePing == <<"p", "i", "n", "g">>
ShovePrefix == <<"s", "h", "o", "v", "e", "-">>
RefsHeadsPrefix == <<"r", "e", "f", "s", "/", "h", "e", "a", "d", "s", "/">>

\* strings.HasPrefix(s, prefix)
HasPrefix(s, prefix) ==
    /\ Len(s) >= Len(prefix)
    /\ SubSeq(s, 1, Len(prefix)) = prefix

\* strings.TrimPrefix(s, prefix)
TrimPrefix(s, prefix) ==
    IF HasPrefix(s, prefix) THEN SubSeq(s, Len(prefix) + 1, Len(s)) ELSE s

\* PushEvent{}
PushEvent ==
    [type |-> "PushEvent", Ref |-> <<>>, Commit |-> <<>>, Branch |-> <<>>,
     RepositoryName |-> <<>>, RepositoryOwnerName |-> <<>>,
     RawMessage |-> NoBody]

\* ShoveStartupEvent{}
ShoveStartupEvent == [type |-> "ShoveStartupEvent"]

\* the method EventType() of each type of event
EventType(e) ==
    CASE e.type = "PushEvent" -> TypePush
      [] e.type = "ShoveStartupEvent" -> TypeShoveStartup
      [] e.type = "MinimalPingEvent" -> TypePing

\* event, ok := e.(Event): the types with FullRepoName() and EnvVariables()
ImplementsEvent(e) == e.type \in {"PushEvent", "ShoveStartupEvent"}

\* the method FullRepoName() of each type of event
FullRepoName(e) ==
    CASE e.type = "PushEvent" ->
           e.RepositoryOwnerName \o <<"/">> \o e.RepositoryName
      [] e.type = "ShoveStartupEvent" -> <<>>

\* the method EnvVariables() of each type of event (nil is the empty map)
EnvVariables(e) ==
    CASE e.type = "PushEvent" ->
           [k \in {"SHOVE_VAR_REF", "SHOVE_VAR_BRANCH", "SHOVE_VAR_COMMIT",
                   "SHOVE_VAR_REPO_NAME", "SHOVE_VAR_REPO_OWNER",
                   "SHOVE_PAYLOAD"} |->
               CASE k = "SHOVE_VAR_REF" -> e.Ref
                 [] k = "SHOVE_VAR_BRANCH" -> e.Branch
                 [] k = "SHOVE_VAR_COMMIT" -> e.Commit
                 [] k = "SHOVE_VAR_REPO_NAME" -> e.RepositoryName
                 [] k = "SHOVE_VAR_REPO_OWNER" -> e.RepositoryOwnerName
                 [] k = "SHOVE_PAYLOAD" -> e.RawMessage]
      [] e.type = "ShoveStartupEvent" -> [k \in {} |-> <<>>]

\* var supportedEventTypes = []Event{PushEvent{}, ShoveStartupEvent{}}
supportedEventTypes == <<PushEvent, ShoveStartupEvent>>

\* func isSupportedEventType(eventType string) bool
isSupportedEventType(eventType) ==
    \E i \in 1..Len(supportedEventTypes) :
        EventType(supportedEventTypes[i]) = eventType

errUnmarshalNumber ==
    "json: cannot unmarshal number into Go struct field PushEvent.ref of type string"

\* the members "ref", "after", "repository.name" and
\* "repository.owner.name" of a JSON text
JsonPushMembers(text) ==
    CASE text = BodyPushBar.text ->
           [ref |-> [kind |-> "string", str |-> <<"r", "e", "f", "s", "/", "h", "e", "a", "d", "s", "/", "m", "a", "s", "t", "e", "r">>],
            after |-> <<"c", "0", "f", "f", "e", "e">>, name |-> <<"b", "a", "r">>, owner |-> <<"f", "o", "o">>]
      [] text = BodyPushTag.text ->
           [ref |-> [kind |-> "string", str |-> <<"r", "e", "f", "s", "/", "t", "a", "g", "s", "/", "v", "1">>],
            after |-> <<"c", "0", "f", "f", "e", "e">>, name |-> <<"b", "a", "z">>, owner |-> <<"f", "o", "o">>]
      [] text = BodyPushBad.text ->
           [ref |-> [kind |-> "number", str |-> <<>>],
            after |-> <<>>, name |-> <<>>, owner |-> <<>>]
      [] OTHER ->
           [ref |-> [kind |-> "string", str |-> <<>>],
            after |-> <<>>, name |-> <<>>, owner |-> <<>>]

\* e := PushEvent{}; err := json.Unmarshal(payload, &e): a member of the
\* wrong type is left out and is an error, the others are stored
JsonUnmarshalPushEvent(payload) ==
    LET v == JsonPushMembers(payload.text)
        e == [PushEvent EXCEPT
                 !.Ref = IF v.ref.kind = "string" THEN v.ref.str ELSE <<>>,
                 !.Commit = v.after,
                 !.RepositoryName = v.name,
                 !.RepositoryOwnerName = v.owner]
    IN  [event |-> e,
         err |-> IF v.ref.kind = "string" THEN NoError ELSE errUnmarshalNumber]

\* func decodeEvent(eventType string, payload []byte) (shove.Event, error)
decodeEvent(eventType, payload) ==
    IF eventType = "push"
    THEN LET got == JsonUnmarshalPushEvent(payload)
         IN  IF got.err = NoError
             THEN [event |-> [got.event EXCEPT
                                 !.RawMessage = payload,
                                 !.Branch =
                                     IF HasPrefix(got.event.Ref, RefsHeadsPrefix)
                                     THEN TrimPrefix(got.event.Ref,
                                                     RefsHeadsPrefix)
                                     ELSE @],
                   err |-> NoError]
             ELSE got
    ELSE MinimalEventDecoder(eventType, payload)

\* the values of Handler.EventDecoder: nil, or the decoder of TestHandler
EventDecoders == {"nil", "TestEventDecoder"}

\* the values of Handler.Callback: a function, or nil
Callbacks == {"func", "nil"}

\* eventDecoder with no decoder to fall back on
eventDecoder_NoDefault(hd, eventType, payload) ==
    IF hd.EventDecoder # "nil"
    THEN TestEventDecoder(eventType, payload)
    ELSE [event |-> NilEvent, err |-> NoError]

\* eventDecoder := EventDecoder(MinimalEventDecoder)
\* if h.EventDecoder != nil { eventDecoder = h.EventDecoder }
\* event, err := eventDecoder(eventType, body)
eventDecoder(hd, eventType, payload) ==
    IF hd.EventDecoder = "decodeEvent"
    THEN decodeEvent(eventType, payload)
    ELSE IF hd.EventDecoder # "nil"
    THEN TestEventDecoder(eventType, payload)
    ELSE MinimalEventDecoder(eventType, payload)

(***************************************************************************)
(* Requests.                                                               *)
(***************************************************************************)
\* what the sender puts into X-Hub-Signature for a body signed with a key
SignGitHub(key, body) == Sha1Prefix \o HexEncodeToString(HmacSha1(key, body))

\* what the sender puts into X-Gitea-Signature for a body signed with a key
SignGitea(key, body) == HexEncodeToString(HmacSha256(key, body))

Methods == {"POST", "GET"}
Bodies == {Body42, BodyFoobar, BodyHuge}
\* the error of reading r.Body, if any
ReadErrors == {NoError, "unexpected EOF"}
EventTypes == {"ping", "test"}
Deliveries == {"first", "second"}

\* values of X-Hub-Signature: absent, only white space, "sha1=42", and
\* signatures made with the key "verysecret", one of them surrounded by
\* white space
HubHeaders ==
    { <<>>,
      <<" ", " ">>,
      Sha1Prefix \o <<"4", "2">>,
      SignGitHub("verysecret", Body42),
      <<" ">> \o SignGitHub("verysecret", Body42) \o <<"\n">>,
      SignGitHub("verysecret", BodyFoobar),
      SignGitHub("verysecret", LimitReader(BodyHuge)) }

\* values of X-Gitea-Signature: absent, only white space, "42", and
\* signatures made with the key "verysecret"
GiteaHeaders ==
    { <<>>,
      <<"\t">>,
      <<"4", "2">>,
      SignGitea("verysecret", Body42),
      SignGitea("verysecret", BodyFoobar),
      SignGitea("verysecret", LimitReader(BodyHuge)) }

\* a signature with the character at position i changed
Flip(sig, i) == [sig EXCEPT ![i] = IF @ = "0" THEN "1" ELSE "0"]

\* a signature with its hex digits in upper case
UpperHex(sig) ==
    [i \in 1..Len(sig) |->
        CASE sig[i] = "a" -> "A" [] sig[i] = "b" -> "B" [] sig[i] = "c" -> "C"
          [] sig[i] = "d" -> "D" [] sig[i] = "e" -> "E" [] sig[i] = "f" -> "F"
          [] OTHER -> sig[i]]

Spaces(n) == [i \in 1..n |-> " "]

\* values of X-Hub-Signature for the signature check: the signatures of two
\* bodies under two keys; one of them with each single position changed, in
\* upper case, surrounded by white space, and shifted by a leading space;
\* "sha1=" and forty times "a"; 45 spaces; and none
VerifyHubHeaders ==
    { SignGitHub(k, b) : k \in Keys, b \in {Body42, BodyFoobar} }
      \cup { Flip(SignGitHub("verysecret", Body42), i) :
                 i \in 1..GitHubSignatureLen }
      \cup { UpperHex(SignGitHub("verysecret", Body42)),
             <<" ">> \o SignGitHub("verysecret", Body42) \o <<" ">>,
             <<" ">> \o SubSeq(SignGitHub("verysecret", Body42), 1,
                               GitHubSignatureLen - 1),
             Sha1Prefix \o [i \in 1..40 |-> "a"],
             Spaces(GitHubSignatureLen),
             <<>> }

\* POST requests with these X-Hub-Signature values
VerifyRequests ==
    [Method : {"POST"}, Body : {Body42, BodyFoobar}, ReadErr : {NoError},
     Hub : VerifyHubHeaders,
     Gitea : {<<>>, SignGitea("verysecret", Body42)},
     EventType : {"ping"}, Delivery : Deliveries]

\* values of X-Gitea-Signature for the signature check: the signatures of
\* two bodies under two keys; one of them with each single position changed,
\* in upper case, surrounded by white space, and shifted by a leading space;
\* sixty-four times "a"; 64 spaces; and none
VerifyGiteaHeaders ==
    { SignGitea(k, b) : k \in Keys, b \in {Body42, BodyFoobar} }
      \cup { Flip(SignGitea("verysecret", Body42), i) :
                 i \in 1..GiteaSignatureLen }
      \cup { UpperHex(SignGitea("verysecret", Body42)),
             <<" ">> \o SignGitea("verysecret", Body42) \o <<" ">>,
             <<" ">> \o SubSeq(SignGitea("verysecret", Body42), 1,
                               GiteaSignatureLen - 1),
             [i \in 1..GiteaSignatureLen |-> "a"],
             Spaces(GiteaSignatureLen),
             <<>> }

\* POST requests with these X-Gitea-Signature values
VerifyGiteaRequests ==
    [Method : {"POST"}, Body : {Body42, BodyFoobar}, ReadErr : {NoError},
     Hub : {<<>>, SignGitHub("verysecret", Body42)},
     Gitea : VerifyGiteaHeaders,
     EventType : {"ping"}, Delivery : Deliveries]

\* a few requests for the handler to serve at once: one for each way a call
\* of ServeHTTP can end
ConcurrentRequests ==
    LET post == [Method |-> "POST", Body |-> Body42, ReadErr |-> NoError,
                 Hub |-> <<>>, Gitea |-> <<>>,
                 EventType |-> "ping", Delivery |-> "first"]
    IN  { [post EXCEPT !.Method = "GET"],
          [post EXCEPT !.ReadErr = "unexpected EOF"],
          post,
          [post EXCEPT !.Hub = SignGitHub("verysecret", BodyFoobar)],
          [post EXCEPT !.Hub = SignGitHub("verysecret", Body42)],
          [post EXCEPT !.Body = BodyFoobar,
                       !.Hub = SignGitHub("verysecret", BodyFoobar),
                       !.Delivery = "second"],
          [post EXCEPT !.Gitea = SignGitea("verysecret", Body42),
                       !.EventType = "test", !.Delivery = "second"] }

\* POST requests that a sender holding the key "verysecret" has signed in
\* the GitHub style, in the Gitea style, in both or not at all
ReplayRequests ==
    UNION { [Method : {"POST"}, Body : {b}, ReadErr : {NoError},
             Hub : {<<>>, SignGitHub("verysecret", b)},
             Gitea : {<<>>, SignGitea("verysecret", b)},
             EventType : EventTypes, Delivery : Deliveries] :
            b \in {Body42, BodyFoobar} }

\* POST requests whose signature headers are absent, white space only, or a
\* right or wrong signature with white space before or after it
TrimRequests ==
    LET hub == SignGitHub("verysecret", Body42)
        gitea == SignGitea("verysecret", Body42)
    IN  [Method : {"POST"}, Body : {Body42}, ReadErr : {NoError},
         Hub : { <<>>, <<" ">>, <<"\t", "\n">>, Spaces(GitHubSignatureLen),
                 hub, <<" ">> \o hub, hub \o <<"\n">>,
                 <<" ", "\t">> \o hub \o <<" ">>,
                 <<" ">> \o Flip(hub, GitHubSignatureLen) \o <<" ">> },
         Gitea : { <<>>, <<"\n">>, gitea,
                   <<" ", " ">> \o gitea \o <<"\t">>,
                   <<" ">> \o Flip(gitea, 1) },
         EventType : {"ping"}, Delivery : Deliveries]

\* httptest.NewRequest(tc.Method, "/", body) with the headers of a test case
Requests ==
    [Method : Methods, Body : Bodies, ReadErr : ReadErrors,
     Hub : HubHeaders, Gitea : GiteaHeaders,
     EventType : EventTypes, Delivery : Deliveries]

NoRequest ==
    [Method |-> "", Body |-> NoBody, ReadErr |-> NoError,
     Hub |-> <<>>, Gitea |-> <<>>, EventType |-> "", Delivery |-> ""]

(***************************************************************************)
(* The state of one call of ServeHTTP: the request, the locals body and    *)
(* event, the errors returned by the read, by each signature check, by     *)
(* the signature check as a whole and by the decoder ("-" while the stage  *)
(* has not run), the response written, the stages run so far and the       *)
(* Callback invocations made.                                              *)
(***************************************************************************)
NotRun == "-"

Idle ==
    [pc |-> "idle", req |-> NoRequest, body |-> NoBody,
     readErr |-> NotRun, hubErr |-> NotRun, giteaErr |-> NotRun,
     sigErr |-> NotRun, decErr |-> NotRun,
     event |-> NilEvent, status |-> 0, out |-> <<>>,
     trace |-> <<>>, calls |-> <<>>]

\* ServeHTTP calls in flight at once
MaxInFlight == 2
Slots == 1..MaxInFlight

\* w.WriteHeader(code): the first status written is the one sent
WriteHeader(st, code) ==
    IF st.status # 0 THEN st ELSE [st EXCEPT !.status = code]

\* http.Error(w, msg, code); return: the status and the message as one line
HttpError(st, msg, code) ==
    [WriteHeader(st, code) EXCEPT !.pc = "done", !.out = Append(@, msg)]

Stage(st, name) == [st EXCEPT !.trace = Append(@, name)]

\* MethodStep without the method check
MethodStep_AnyMethod(st) == [Stage(st, "method") EXCEPT !.pc = "read"]

\* if r.Method != "POST" { http.Error(w, "method not allowed", 405); return }
MethodStep(st) ==
    LET t == Stage(st, "method")
    IN  IF t.req.Method # "POST"
        THEN HttpError(t, "method not allowed", StatusMethodNotAllowed)
        ELSE [t EXCEPT !.pc = "read"]

\* body, err := ioutil.ReadAll(io.LimitReader(r.Body, 25<<20))
\* if err != nil { http.Error(w, err.Error(), 500); return }
ReadStep(st) ==
    LET got == ReadAll(st.req.Body, st.req.ReadErr)
        t == [Stage(st, "read") EXCEPT !.readErr = got.err]
    IN  IF got.err # NoError
        THEN HttpError(t, got.err, StatusInternalServerError)
        ELSE [t EXCEPT !.pc = "github", !.body = got.body]

\* the stages a signature check adds to the trace
CheckStages(name, macName, res) ==
    IF res.mac THEN <<name, macName>> ELSE <<name>>

\* GitHubStep without the return after the 401 is written
GitHubStep_NoReturn(hd, st) ==
    LET res == checkGitHubSignature(hd, st.req, st.body)
        t == [st EXCEPT
                 !.trace = @ \o CheckStages("github", "hmac-sha1", res),
                 !.hubErr = res.err]
    IN  IF res.err = errNoSignature
        THEN [t EXCEPT !.pc = "gitea"]
        ELSE IF res.err # NoError
        THEN [HttpError([t EXCEPT !.sigErr = res.err],
                        res.err, StatusUnauthorized) EXCEPT !.pc = "decode"]
        ELSE [t EXCEPT !.pc = "decode", !.sigErr = NoError]

\* GitHubStep telling the client which key the signature was checked with
GitHubStep_EchoesKey(hd, st) ==
    LET res == checkGitHubSignature(hd, st.req, st.body)
        t == [st EXCEPT
                 !.trace = @ \o CheckStages("github", "hmac-sha1", res),
                 !.hubErr = res.err]
    IN  IF res.err = errNoSignature
        THEN [t EXCEPT !.pc = "gitea"]
        ELSE IF res.err # NoError
        THEN HttpError([t EXCEPT !.sigErr = res.err],
                       hd.SecretKey, StatusUnauthorized)
        ELSE [t EXCEPT !.pc = "decode", !.sigErr = NoError]

\* GitHubStep falling back to the Gitea check after any error
GitHubStep_FallbackOnAnyError(hd, st) ==
    LET res == checkGitHubSignature(hd, st.req, st.body)
        t == [st EXCEPT
                 !.trace = @ \o CheckStages("github", "hmac-sha1", res),
                 !.hubErr = res.err]
    IN  IF res.err # NoError
        THEN [t EXCEPT !.pc = "gitea"]
        ELSE [t EXCEPT !.pc = "decode", !.sigErr = NoError]

\* err = h.checkGitHubSignature(r, body)
\* if err == errNoSignature { (the Gitea check is next) }
\* if err != nil { http.Error(w, err.Error(), 401); return }
GitHubStep(hd, st) ==
    LET res == checkGitHubSignature(hd, st.req, st.body)
        t == [st EXCEPT
                 !.trace = @ \o CheckStages("github", "hmac-sha1", res),
                 !.hubErr = res.err]
    IN  IF res.err = errNoSignature
        THEN [t EXCEPT !.pc = "gitea"]
        ELSE IF res.err # NoError
        THEN HttpError([t EXCEPT !.sigErr = res.err],
                       res.err, StatusUnauthorized)
        ELSE [t EXCEPT !.pc = "decode", !.sigErr = NoError]

\* GiteaStep without the return after the 401 is written
GiteaStep_NoReturn(hd, st) ==
    LET res == checkGiteaSignature(hd, st.req, st.body)
        t == [st EXCEPT
                 !.trace = @ \o CheckStages("gitea", "hmac-sha256", res),
                 !.giteaErr = res.err, !.sigErr = res.err]
    IN  IF res.err # NoError
        THEN [HttpError(t, res.err, StatusUnauthorized) EXCEPT !.pc = "decode"]
        ELSE [t EXCEPT !.pc = "decode"]

\* err = h.checkGiteaSignature(r, body)
\* if err != nil { http.Error(w, err.Error(), 401); return }
GiteaStep(hd, st) ==
    LET res == checkGiteaSignature(hd, st.req, st.body)
        t == [st EXCEPT
                 !.trace = @ \o CheckStages("gitea", "hmac-sha256", res),
                 !.giteaErr = res.err, !.sigErr = res.err]
    IN  IF res.err # NoError
        THEN HttpError(t, res.err, StatusUnauthorized)
        ELSE [t EXCEPT !.pc = "decode"]

\* DecodeStep without the check for a nil event
DecodeStep_NoNilCheck(hd, st) ==
    LET got == eventDecoder(hd, st.req.EventType, st.body)
        t == [Stage(st, "decode") EXCEPT
                 !.event = got.event, !.decErr = got.err]
    IN  IF got.err # NoError
        THEN HttpError(t, got.err, StatusBadRequest)
        ELSE [t EXCEPT !.pc = "callback"]

\* DecodeStep without the return after the decoder's error is written
DecodeStep_NoReturn(hd, st) ==
    LET got == eventDecoder(hd, st.req.EventType, st.body)
        t == [Stage(st, "decode") EXCEPT
                 !.event = got.event, !.decErr = got.err]
    IN  IF got.err # NoError
        THEN [HttpError(t, got.err, StatusBadRequest) EXCEPT !.pc = "callback"]
        ELSE IF got.event = NilEvent
        THEN HttpError(t, "event type not supported", StatusNotImplemented)
        ELSE [t EXCEPT !.pc = "callback"]

\* DecodeStep answering 204 for a nil event
DecodeStep_NilEventNoContent(hd, st) ==
    LET got == eventDecoder(hd, st.req.EventType, st.body)
        t == [Stage(st, "decode") EXCEPT
                 !.event = got.event, !.decErr = got.err]
    IN  IF got.err # NoError
        THEN HttpError(t, got.err, StatusBadRequest)
        ELSE IF got.event = NilEvent
        THEN [WriteHeader(t, StatusNoContent) EXCEPT !.pc = "done"]
        ELSE [t EXCEPT !.pc = "callback"]

\* DecodeStep writing the 204 before the Callback is called
DecodeStep_RespondsEarly(hd, st) ==
    LET got == eventDecoder(hd, st.req.EventType, st.body)
        t == [Stage(st, "decode") EXCEPT
                 !.event = got.event, !.decErr = got.err]
    IN  IF got.err # NoError
        THEN HttpError(t, got.err, StatusBadRequest)
        ELSE IF got.event = NilEvent
        THEN HttpError(t, "event type not supported", StatusNotImplemented)
        ELSE [WriteHeader(t, StatusNoContent) EXCEPT !.pc = "callback"]

\* DecodeStep looking at the event before the error
DecodeStep_EventBeforeError(hd, st) ==
    LET got == eventDecoder(hd, st.req.EventType, st.body)
        t == [Stage(st, "decode") EXCEPT
                 !.event = got.event, !.decErr = got.err]
    IN  IF got.event # NilEvent
        THEN [t EXCEPT !.pc = "callback"]
        ELSE IF got.err # NoError
        THEN HttpError(t, got.err, StatusBadRequest)
        ELSE HttpError(t, "event type not supported", StatusNotImplemented)

\* eventType := r.Header.Get("X-GitHub-Event")
\* event, err := eventDecoder(eventType, body)
\* if err != nil { http.Error(w, err.Error(), 400); return }
\* if event == nil { http.Error(w, "event type not supported", 501); return }
DecodeStep(hd, st) ==
    LET got == eventDecoder(hd, st.req.EventType, st.body)
        t == [Stage(st, "decode") EXCEPT
                 !.event = got.event, !.decErr = got.err]
    IN  IF got.err # NoError
        THEN HttpError(t, got.err, StatusBadRequest)
        ELSE IF got.event = NilEvent
        THEN HttpError(t, "event type not supported", StatusNotImplemented)
        ELSE [t EXCEPT !.pc = "callback"]

\* CallbackStep reading X-GitHub-Event where X-GitHub-Delivery is meant
CallbackStep_WrongHeader(hd, st) ==
    [Stage(st, "callback") EXCEPT
        !.pc = "respond",
        !.calls = Append(@, [guid |-> st.req.EventType, event |-> st.event])]

\* h.Callback(r.Header.Get("X-GitHub-Delivery"), event)
\* (the call of a nil function value panics)
CallbackStep(hd, st) ==
    IF hd.Callback = "nil"
    THEN [Stage(st, "callback") EXCEPT !.pc = "panic"]
    ELSE [Stage(st, "callback") EXCEPT
             !.pc = "respond",
             !.calls = Append(@, [guid |-> st.req.Delivery,
                                  event |-> st.event])]

\* RespondStep returning without a status
RespondStep_NoWrite(st) == [Stage(st, "respond") EXCEPT !.pc = "done"]

\* w.WriteHeader(http.StatusNoContent)
RespondStep(st) ==
    [WriteHeader(Stage(st, "respond"), StatusNoContent) EXCEPT !.pc = "done"]

\* the stage of ServeHTTP that a call at st.pc runs next
StageOf(hd, st) ==
    CASE st.pc = "method" -> MethodStep(st)
      [] st.pc = "read" -> ReadStep(st)
      [] st.pc = "github" -> GitHubStep(hd, st)
      [] st.pc = "gitea" -> GiteaStep(hd, st)
      [] st.pc = "decode" -> DecodeStep(hd, st)
      [] st.pc = "callback" -> CallbackStep(hd, st)
      [] st.pc = "respond" -> RespondStep(st)

RECURSIVE RunToEnd(_, _)
RunToEnd(hd, st) ==
    IF st.pc \in {"done", "panic"} THEN st ELSE RunToEnd(hd, StageOf(hd, st))

\* func (h Handler) ServeHTTP(w, r), run from its first line to its return
\* with no other call in flight
ServeHTTP(hd, r) == RunToEnd(hd, [Idle EXCEPT !.pc = "method", !.req = r])

(***************************************************************************)
(* The handler and the calls of ServeHTTP in flight.  callbackCount counts *)
(* the Callback invocations and okCount the responses with status 204;     *)
(* prev is the finished call that a client has kept for comparison.        *)
(***************************************************************************)
\* the command-line program is not run, and Action.Matches is not called
NotStarted == [pc |-> "off"]
NoProbe == [pc |-> "off"]

\* a handler with a Callback, as main() and TestHandler construct it
Init ==
    /\ h \in [SecretKey : Keys, EventDecoder : EventDecoders,
               Callback : {"func"}]
    /\ reqs = [s \in Slots |-> Idle]
    /\ served = 0
    /\ callbackCount = 0
    /\ okCount = 0
    /\ prev = Idle
    /\ cli = NotStarted
    /\ probe = NoProbe

\* any Handler value, the fields left unset included
InitAnyHandler ==
    /\ h \in [SecretKey : Keys, EventDecoder : EventDecoders,
               Callback : Callbacks]
    /\ reqs = [s \in Slots |-> Idle]
    /\ served = 0
    /\ callbackCount = 0
    /\ okCount = 0
    /\ prev = Idle
    /\ cli = NotStarted
    /\ probe = NoProbe

\* the server calls ServeHTTP(w, r)
Receive(s, r) ==
    /\ reqs[s].pc = "idle"
    /\ served < MaxRequests
    /\ reqs' = [reqs EXCEPT ![s] = [Idle EXCEPT !.pc = "method", !.req = r]]
    /\ served' = served + 1
    /\ UNCHANGED <<h, callbackCount, okCount, prev, cli, probe>>

\* Advance with the body kept in one buffer that all calls share
Advance_SharedBody(s, st) ==
    /\ reqs' = [t \in Slots |->
                   IF t = s THEN st
                   ELSE IF /\ st.body # reqs[s].body
                           /\ reqs[t].pc \in {"github", "gitea", "decode"}
                   THEN [reqs[t] EXCEPT !.body = st.body]
                   ELSE reqs[t]]
    /\ callbackCount' = callbackCount + (Len(st.calls) - Len(reqs[s].calls))
    /\ okCount' = okCount +
          (IF reqs[s].status = 0 /\ st.status = StatusNoContent THEN 1 ELSE 0)
    /\ UNCHANGED <<h, served, prev, cli, probe>>

\* one stage of ServeHTTP: st is the state of the call after it
Advance(s, st) ==
    /\ reqs' = [reqs EXCEPT ![s] = st]
    /\ callbackCount' = callbackCount + (Len(st.calls) - Len(reqs[s].calls))
    /\ okCount' = okCount +
          (IF reqs[s].status = 0 /\ st.status = StatusNoContent THEN 1 ELSE 0)
    /\ UNCHANGED <<h, served, prev, cli, probe>>

CheckMethod(s) == reqs[s].pc = "method" /\ Advance(s, MethodStep(reqs[s]))

ReadBody(s) == reqs[s].pc = "read" /\ Advance(s, ReadStep(reqs[s]))

CheckGitHub(s) == reqs[s].pc = "github" /\ Advance(s, GitHubStep(h, reqs[s]))

CheckGitea(s) == reqs[s].pc = "gitea" /\ Advance(s, GiteaStep(h, reqs[s]))

DecodeEvent(s) == reqs[s].pc = "decode" /\ Advance(s, DecodeStep(h, reqs[s]))

\* InvokeCallback leaving out a delivery whose identifier was just served
InvokeCallback_Dedup(s) ==
    /\ reqs[s].pc = "callback"
    /\ Advance(s, IF /\ prev.status = StatusNoContent
                     /\ prev.req.Delivery = reqs[s].req.Delivery
                  THEN [Stage(reqs[s], "callback") EXCEPT !.pc = "respond"]
                  ELSE CallbackStep(h, reqs[s]))

InvokeCallback(s) ==
    reqs[s].pc = "callback" /\ Advance(s, CallbackStep(h, reqs[s]))

WriteNoContent(s) ==
    reqs[s].pc = "respond" /\ Advance(s, RespondStep(reqs[s]))

\* ServeHTTP has returned: the response is complete
Return(s) ==
    /\ reqs[s].pc = "done"
    /\ reqs' = [reqs EXCEPT ![s] = Idle]
    /\ UNCHANGED <<h, served, callbackCount, okCount, prev, cli, probe>>

\* the panic of ServeHTTP is recovered by the server, which closes the
\* connection: the client gets no response
Recover(s) ==
    /\ reqs[s].pc = "panic"
    /\ reqs' = [reqs EXCEPT ![s] = Idle]
    /\ UNCHANGED <<h, served, callbackCount, okCount, prev, cli, probe>>

\* ServeHTTP has returned and the client keeps the call for comparison
ReturnRecorded(s) ==
    /\ reqs[s].pc = "done"
    /\ reqs' = [reqs EXCEPT ![s] = Idle]
    /\ prev' = reqs[s]
    /\ UNCHANGED <<h, served, callbackCount, okCount, cli, probe>>

\* the stages of ServeHTTP
Stages(s) ==
    \/ CheckMethod(s)
    \/ ReadBody(s)
    \/ CheckGitHub(s)
    \/ CheckGitea(s)
    \/ DecodeEvent(s)
    \/ InvokeCallback(s)
    \/ WriteNoContent(s)

Step(s) ==
    \/ CheckMethod(s)
    \/ ReadBody(s)
    \/ CheckGitHub(s)
    \/ CheckGitea(s)
    \/ DecodeEvent(s)
    \/ InvokeCallback(s)
    \/ WriteNoContent(s)
    \/ Return(s)

\* one request at a time, as in the loop of TestHandler
NoneInFlight == \A s \in Slots : reqs[s].pc = "idle"

Next ==
    \/ NoneInFlight /\ \E r \in Requests : Receive(1, r)
    \/ \E s \in Slots : Step(s)

Spec == Init /\ [][Next]_vars

\* the handler serving the requests of VerifyRequests
NextVerify ==
    \/ NoneInFlight /\ \E r \in VerifyRequests : Receive(1, r)
    \/ \E s \in Slots : Step(s)

SpecVerify == Init /\ [][NextVerify]_vars

\* the handler serving the requests of VerifyGiteaRequests
NextVerifyGitea ==
    \/ NoneInFlight /\ \E r \in VerifyGiteaRequests : Receive(1, r)
    \/ \E s \in Slots : Step(s)

SpecVerifyGitea == Init /\ [][NextVerifyGitea]_vars

\* the server runs ServeHTTP in a goroutine per connection: calls are in
\* flight at once and their stages interleave
NextConcurrent ==
    \/ \E s \in Slots : \E r \in ConcurrentRequests : Receive(s, r)
    \/ \E s \in Slots : Step(s)

SpecConcurrent == Init /\ [][NextConcurrent]_vars

\* one request after the other, the client keeping the finished call
NextReplay ==
    \/ NoneInFlight /\ \E r \in ReplayRequests : Receive(1, r)
    \/ \E s \in Slots : Stages(s)
    \/ \E s \in Slots : ReturnRecorded(s)

SpecReplay == Init /\ [][NextReplay]_vars

\* the handler serving the requests of TrimRequests
NextTrim ==
    \/ NoneInFlight /\ \E r \in TrimRequests : Receive(1, r)
    \/ \E s \in Slots : Step(s)

SpecTrim == Init /\ [][NextTrim]_vars

\* requests that between them end at every stage of ServeHTTP
StageRequests ==
    LET posts == [Method : {"POST"}, Body : {Body42, BodyFoobar},
                  ReadErr : {NoError},
                  Hub : {<<>>, SignGitHub("verysecret", Body42),
                         SignGitHub("verysecret", BodyFoobar)},
                  Gitea : {<<>>, SignGitea("verysecret", Body42)},
                  EventType : EventTypes, Delivery : {"first"}]
    IN  posts
          \cup { [r EXCEPT !.Method = "GET"] : r \in {p \in posts : p.Hub = <<>>} }
          \cup { [r EXCEPT !.ReadErr = "unexpected EOF"] :
                     r \in {p \in posts : p.Gitea = <<>>} }

\* any Handler value serving the requests of StageRequests; ServeHTTP does
\* not wait for anything, so the stage a call is at is run in the end
NextAnyHandler ==
    \/ NoneInFlight /\ \E r \in StageRequests : Receive(1, r)
    \/ \E s \in Slots : Step(s)
    \/ \E s \in Slots : Recover(s)

SpecAnyHandler ==
    /\ InitAnyHandler
    /\ [][NextAnyHandler]_vars
    /\ WF_vars(\E s \in Slots : Stages(s))

(***************************************************************************)
(* The command-line program: actions.go.  A command run by an action is    *)
(* kept as an entry of the log, with the environment it was given.         *)
(***************************************************************************)
RepoBar == <<"f", "o", "o", "/", "b", "a", "r">>
RepoBaz == <<"f", "o", "o", "/", "b", "a", "z">>

\* one element of Action.Triggers
Trigger(events, repos) == [EventTypes |-> events, FullRepoNames |-> repos]

\* the second example of the README, for the repository foo/bar
ActCheckout ==
    [Name |-> "checkout",
     Triggers |-> <<Trigger(<<TypeShoveStartup>>, <<>>),
                    Trigger(<<TypePush>>, <<RepoBar>>)>>,
     Command |-> <<"/bin/sh", "-c", "git pull">>]

\* the first example of the README
ActHello ==
    [Name |-> "hello",
     Triggers |-> <<Trigger(<<TypePush>>, <<RepoBar, RepoBaz>>)>>,
     Command |-> <<"/bin/echo", "Hello World">>]

\* one trigger for the pseudo-event and for pushes, with no repositories
ActBoot ==
    [Name |-> "boot",
     Triggers |-> <<Trigger(<<TypeShoveStartup, TypePush>>, <<>>)>>,
     Command |-> <<"/bin/true">>]

\* actions that Validate finds fault with
ActPseudoWithRepos ==
    [Name |-> "pseudo",
     Triggers |-> <<Trigger(<<TypePush>>, <<RepoBaz>>),
                    Trigger(<<TypePush, TypeShoveStartup>>, <<RepoBar>>)>>,
     Command |-> <<"/bin/true">>]

\* two triggers for pseudo-events with repositories, one of an event type
\* that is not supported
ActTwoPseudoWithRepos ==
    [Name |-> "pseudo twice",
     Triggers |-> <<Trigger(<<ShovePrefix \o TypePing>>, <<RepoBar>>),
                    Trigger(<<TypeShoveStartup>>, <<RepoBar, RepoBaz>>)>>,
     Command |-> <<"/bin/true">>]

\* type Configuration struct { Actions []Action }
Configuration(actions) == [Actions |-> actions]

\* func containsString(list []string, val string) bool
containsString(list, val) == \E i \in 1..Len(list) : list[i] = val

\* the loop of Action.Matches from trigger i on
RECURSIVE MatchesFrom(_, _, _)
MatchesFrom(a, event, i) ==
    IF i > Len(a.Triggers) THEN FALSE
    ELSE LET t == a.Triggers[i]
         IN  IF containsString(t.EventTypes, EventType(event))
             THEN IF FullRepoName(event) = <<>> THEN TRUE
                  ELSE IF containsString(t.FullRepoNames, FullRepoName(event))
                  THEN TRUE
                  ELSE MatchesFrom(a, event, i + 1)
             ELSE MatchesFrom(a, event, i + 1)

\* Matches looking for the event type and the repository in any triggers
Matches_AcrossTriggers(a, event) ==
    /\ \E i \in 1..Len(a.Triggers) :
          containsString(a.Triggers[i].EventTypes, EventType(event))
    /\ \/ FullRepoName(event) = <<>>
       \/ \E i \in 1..Len(a.Triggers) :
             containsString(a.Triggers[i].FullRepoNames, FullRepoName(event))

\* func (a Action) Matches(event Event) bool
Matches(a, event) == MatchesFrom(a, event, 1)

\* cmd.Env = os.Environ(), then k+"="+v for each variable of the event: a
\* variable given twice has its last value
CommandEnv(environ, event) ==
    LET ev == EnvVariables(event)
    IN  [k \in DOMAIN environ \cup DOMAIN ev |->
            IF k \in DOMAIN ev THEN ev[k] ELSE environ[k]]

\* one line of the log, or one command run
LogEntry(kind, guid, name) ==
    [kind |-> kind, guid |-> guid, event |-> <<>>, repo |-> <<>>,
     action |-> name, command |-> <<>>, env |-> [k \in {} |-> <<>>],
     err |-> NoError]

\* logg.Info("[%s] received %s event for %s", guid, e.EventType(),
\* fullRepoName)
Received(guid, event) ==
    [LogEntry("received event", guid, "") EXCEPT
        !.event = EventType(event), !.repo = FullRepoName(event)]

\* func (a Action) Execute(guid string, event Event): the lines logged and
\* the command run; runErr is what cmd.Run() returns
Execute(a, guid, event, environ, runErr) ==
    <<LogEntry("executing action", guid, a.Name)>>
      \o (IF Len(a.Command) > 0
          THEN <<[LogEntry("run", guid, a.Name) EXCEPT
                     !.command = a.Command,
                     !.env = CommandEnv(environ, event),
                     !.err = runErr]>>
                 \o (IF runErr # NoError
                     THEN <<[LogEntry("command failed", guid, a.Name) EXCEPT
                                !.command = a.Command, !.err = runErr]>>
                     ELSE <<>>)
          ELSE <<>>)

\* the loop of Configuration.HandleEvent from action i on; runErrs[i] is
\* what the command of action i returns if it is run
RECURSIVE HandleFrom(_, _, _, _, _, _)
HandleFrom(c, guid, event, environ, runErrs, i) ==
    IF i > Len(c.Actions) THEN <<>>
    ELSE (IF Matches(c.Actions[i], event)
          THEN Execute(c.Actions[i], guid, event, environ, runErrs[i])
          ELSE <<>>)
           \o HandleFrom(c, guid, event, environ, runErrs, i + 1)

\* the loop of HandleEvent, left at the first command that fails
RECURSIVE HandleFromUntilFailure(_, _, _, _, _, _)
HandleFromUntilFailure(c, guid, event, environ, runErrs, i) ==
    IF i > Len(c.Actions) THEN <<>>
    ELSE IF Matches(c.Actions[i], event)
    THEN Execute(c.Actions[i], guid, event, environ, runErrs[i])
           \o (IF runErrs[i] # NoError /\ Len(c.Actions[i].Command) > 0
               THEN <<>>
               ELSE HandleFromUntilFailure(c, guid, event, environ,
                                           runErrs, i + 1))
    ELSE HandleFromUntilFailure(c, guid, event, environ, runErrs, i + 1)

\* HandleEvent that stops at the first command that fails
HandleEvent_StopOnFailure(c, guid, e, environ, runErrs) ==
    IF ~ImplementsEvent(e) THEN <<>>
    ELSE <<Received(guid, e)>>
           \o HandleFromUntilFailure(c, guid, e, environ, runErrs, 1)

\* HandleEvent taking an event of any other type for the pseudo-event
HandleEvent_NoTypeAssertion(c, guid, e, environ, runErrs) ==
    LET event == IF ImplementsEvent(e) THEN e ELSE ShoveStartupEvent
    IN  <<Received(guid, event)>>
          \o HandleFrom(c, guid, event, environ, runErrs, 1)

\* func (c Configuration) HandleEvent(guid string, e shove.Event)
HandleEvent(c, guid, e, environ, runErrs) ==
    IF ~ImplementsEvent(e) THEN <<>>
    ELSE <<Received(guid, e)>> \o HandleFrom(c, guid, e, environ, runErrs, 1)

\* one error of Validate: which check, and the indices in the message
ValidateError(kind, aIdx, tIdx) == [kind |-> kind, aIdx |-> aIdx, tIdx |-> tIdx]

\* the errors for the event types of a trigger from item i on
RECURSIVE UnsupportedFrom(_, _, _, _)
UnsupportedFrom(trigger, aIdx, tIdx, i) ==
    IF i > Len(trigger.EventTypes) THEN <<>>
    ELSE (IF ~isSupportedEventType(trigger.EventTypes[i])
          THEN <<ValidateError("unsupported event type", aIdx, tIdx)>>
          ELSE <<>>)
           \o UnsupportedFrom(trigger, aIdx, tIdx, i + 1)

\* var pseudoEvents []string: the event types that start with "shove-"
pseudoEvents(trigger) ==
    SelectSeq(trigger.EventTypes, LAMBDA t : HasPrefix(t, ShovePrefix))

\* the body of the loop over action.Triggers, without the check of
\* pseudo-events
TriggerErrors_NoPseudoCheck(trigger, aIdx, tIdx) ==
    (IF Len(trigger.EventTypes) = 0
     THEN <<ValidateError("events may not be empty", aIdx, tIdx)>>
     ELSE <<>>)
      \o UnsupportedFrom(trigger, aIdx, tIdx, 1)

\* the body of the loop over action.Triggers
TriggerErrors(trigger, aIdx, tIdx) ==
    (IF Len(trigger.EventTypes) = 0
     THEN <<ValidateError("events may not be empty", aIdx, tIdx)>>
     ELSE <<>>)
      \o UnsupportedFrom(trigger, aIdx, tIdx, 1)
      \o (IF Len(pseudoEvents(trigger)) > 0 /\ Len(trigger.FullRepoNames) > 0
          THEN <<ValidateError("matches pseudo-events, but also requires a match on repository names",
                               aIdx, tIdx)>>
          ELSE <<>>)

RECURSIVE TriggersFrom(_, _, _)
TriggersFrom(action, aIdx, t) ==
    IF t > Len(action.Triggers) THEN <<>>
    ELSE TriggerErrors(action.Triggers[t], aIdx, t - 1)
           \o TriggersFrom(action, aIdx, t + 1)

\* the body of the loop over c.Actions
ActionErrors(action, aIdx) ==
    (IF action.Name = ""
     THEN <<ValidateError("name may not be empty", aIdx, 0)>> ELSE <<>>)
      \o (IF Len(action.Triggers) = 0
          THEN <<ValidateError("on may not be empty", aIdx, 0)>> ELSE <<>>)
      \o TriggersFrom(action, aIdx, 1)
      \o (IF Len(action.Command) = 0
          THEN <<ValidateError("execute is missing", aIdx, 0)>> ELSE <<>>)

RECURSIVE ValidateFrom(_, _)
ValidateFrom(c, a) ==
    IF a > Len(c.Actions) THEN <<>>
    ELSE ActionErrors(c.Actions[a], a - 1) \o ValidateFrom(c, a + 1)

\* func (c Configuration) Validate() (errs []error)
Validate(c) == ValidateFrom(c, 1)

(***************************************************************************)
(* The command-line program: main.go.  cli holds the process environment,  *)
(* the files, the locals of main(), the lines logged by main(), the         *)
(* statements of main() run so far, and the last delivery served with the   *)
(* lines logged for it.                                                     *)
(***************************************************************************)
\* deliveries served in one behaviour
MaxDeliveries == 2

\* a file that ioutil.ReadFile does not find
Missing == [kind |-> "missing", config |-> Configuration(<<>>)]

\* the configurations in the files: five that Validate accepts, and eight
\* that it does not (the last five: no name, no trigger, no event type, an
\* event type that is not supported, no command)
Configurations ==
    { Configuration(<<>>),
      Configuration(<<ActCheckout>>),
      Configuration(<<ActHello, ActCheckout>>),
      Configuration(<<ActCheckout, ActBoot, ActHello>>),
      Configuration(<<ActCheckout, ActCheckout>>),
      Configuration(<<ActPseudoWithRepos>>),
      Configuration(<<ActHello, ActPseudoWithRepos>>),
      Configuration(<<ActCheckout, ActTwoPseudoWithRepos>>),
      Configuration(<<[ActHello EXCEPT !.Name = ""]>>),
      Configuration(<<[ActHello EXCEPT !.Triggers = <<>>]>>),
      Configuration(<<[ActHello EXCEPT
                          !.Triggers = <<Trigger(<<>>, <<RepoBar>>)>>]>>),
      Configuration(<<[ActHello EXCEPT
                          !.Triggers = <<Trigger(<<TypePing>>,
                                                 <<RepoBar>>)>>]>>),
      Configuration(<<[ActHello EXCEPT !.Command = <<>>]>>) }

\* ./shove.yaml and /etc/shove.yaml: each is missing, or is not YAML of a
\* Configuration, or is the YAML of one
Files ==
    { [p \in {"./shove.yaml", "/etc/shove.yaml"} |->
          IF p = "./shove.yaml" THEN here ELSE there] :
        here \in {Missing,
                  [kind |-> "yaml", config |-> Configuration(<<ActCheckout>>)]},
        there \in {Missing,
                   [kind |-> "not yaml", config |-> Configuration(<<>>)]}
                    \cup {[kind |-> "yaml", config |-> c] :
                            c \in Configurations} }

\* the environment of the process: SHOVE_CONFIG, SHOVE_SECRET and
\* SHOVE_PORT may each be unset ("<unset>" below), empty or set; the value
\* of SHOVE_PORT is a character sequence
Environs ==
    { [k \in {"PATH"}
              \cup (IF c # "<unset>" THEN {"SHOVE_CONFIG"} ELSE {})
              \cup (IF s # "<unset>" THEN {"SHOVE_SECRET"} ELSE {})
              \cup (IF p # <<"<unset>">> THEN {"SHOVE_PORT"} ELSE {}) |->
          CASE k = "PATH" -> "/usr/bin"
            [] k = "SHOVE_CONFIG" -> c
            [] k = "SHOVE_SECRET" -> s
            [] k = "SHOVE_PORT" -> p] :
        c \in {"<unset>", "", "/etc/shove.yaml"},
        s \in {"<unset>", "", "verysecret"},
        p \in {<<"<unset>">>, <<>>, <<"8", "0", "8", "0">>, <<"8", "0", "a">>,
               <<"6", "5", "5", "3", "6">>} }

\* os.Getenv(key): the value, or the empty string
Getenv(environ, key) ==
    IF key \in DOMAIN environ THEN environ[key]
    ELSE IF key = "SHOVE_PORT" THEN <<>> ELSE ""

\* Unsetenv that leaves the environment as it is
Unsetenv_Nothing(environ, key) == environ

\* os.Unsetenv(key)
Unsetenv(environ, key) == [k \in DOMAIN environ \ {key} |-> environ[k]]

DigitValue(ch) ==
    CASE ch = "0" -> 0 [] ch = "1" -> 1 [] ch = "2" -> 2 [] ch = "3" -> 3
      [] ch = "4" -> 4 [] ch = "5" -> 5 [] ch = "6" -> 6 [] ch = "7" -> 7
      [] ch = "8" -> 8 [] ch = "9" -> 9

RECURSIVE DecimalValue(_)
DecimalValue(s) ==
    IF s = <<>> THEN 0
    ELSE 10 * DecimalValue(SubSeq(s, 1, Len(s) - 1)) + DigitValue(s[Len(s)])

\* strconv.ParseUint(s, 10, 16): 65535 is the largest value of 16 bits
ParseUint(s) ==
    IF \/ s = <<>>
       \/ \E i \in 1..Len(s) :
             s[i] \notin {"0", "1", "2", "3", "4", "5", "6", "7", "8", "9"}
    THEN [val |-> 0, err |-> "invalid syntax"]
    ELSE IF DecimalValue(s) > 65535
    THEN [val |-> 65535, err |-> "value out of range"]
    ELSE [val |-> DecimalValue(s), err |-> NoError]

\* what cmd.Run() returns
RunErrors == {NoError, "exit status 1"}

\* what the commands of the actions return when event e is handled: one
\* result for each action, NoError standing for an action that is not run
RunResults(c, e) ==
    { runErrs \in [1..Len(c.Actions) -> RunErrors] :
        \A i \in 1..Len(c.Actions) :
           runErrs[i] # NoError =>
              ImplementsEvent(e) /\ Matches(c.Actions[i], e) }

StartupGuid == "00000000-0000-0000-0000-000000000000"

\* the process at the first line of main()
Started(environ, files) ==
    [pc |-> "config", environ |-> environ, files |-> files,
     configBytes |-> Missing, config |-> Configuration(<<>>), errs |-> <<>>,
     port |-> 0, log |-> <<>>, steps |-> <<>>, startups |-> 0,
     listening |-> FALSE, deliveries |-> 0,
     last |-> [req |-> NoRequest, status |-> 0, out |-> <<>>, ran |-> <<>>],
     exit |-> 0]

\* logg.Fatal(msg), or os.Exit(1) after the errors are logged
Exit(c, step, msg) ==
    [c EXCEPT !.pc = "exited", !.exit = 1,
              !.steps = Append(@, step),
              !.log = Append(@, LogEntry(msg, "", ""))]

\* a statement of main() has run and the next one is at pc
Goto(c, step, pc) == [c EXCEPT !.pc = pc, !.steps = Append(@, step)]

\* the Handler before main() fills it in
ZeroHandler == [SecretKey |-> "", EventDecoder |-> "nil", Callback |-> "nil"]

InitCli ==
    /\ h = ZeroHandler
    /\ reqs = [s \in Slots |-> Idle]
    /\ served = 0
    /\ callbackCount = 0
    /\ okCount = 0
    /\ prev = Idle
    /\ cli \in {Started(e, f) : e \in Environs, f \in Files}
    /\ probe = NoProbe

\* configPath := os.Getenv("SHOVE_CONFIG") (or "./shove.yaml");
\* configBytes, err := ioutil.ReadFile(configPath)
ReadConfig ==
    /\ cli.pc = "config"
    /\ LET configPath == IF Getenv(cli.environ, "SHOVE_CONFIG") = ""
                         THEN "./shove.yaml"
                         ELSE Getenv(cli.environ, "SHOVE_CONFIG")
           configBytes == cli.files[configPath]
       IN  cli' = IF configBytes.kind = "missing"
                  THEN Exit(cli, "read config", "no such file or directory")
                  ELSE [Goto(cli, "read config", "unmarshal") EXCEPT
                           !.configBytes = configBytes]
    /\ UNCHANGED <<h, reqs, served, callbackCount, okCount, prev, probe>>

\* err = yaml.UnmarshalStrict(configBytes, &config)
UnmarshalConfig ==
    /\ cli.pc = "unmarshal"
    /\ cli' = IF cli.configBytes.kind # "yaml"
              THEN Exit(cli, "unmarshal", "yaml: unmarshal errors")
              ELSE [Goto(cli, "unmarshal", "validate") EXCEPT
                       !.config = cli.configBytes.config]
    /\ UNCHANGED <<h, reqs, served, callbackCount, okCount, prev, probe>>

\* the validation of main() without os.Exit(1): the errors are logged and
\* main() goes on
ValidateConfig_NoExit ==
    /\ cli.pc = "validate"
    /\ cli' = [Goto(cli, "validate", "handler") EXCEPT
                  !.errs = Validate(cli.config)]
    /\ UNCHANGED <<h, reqs, served, callbackCount, okCount, prev, probe>>

\* errs := config.Validate(); if len(errs) > 0 { ...; os.Exit(1) }
ValidateConfig ==
    /\ cli.pc = "validate"
    /\ LET errs == Validate(cli.config)
       IN  cli' = IF Len(errs) > 0
                  THEN [Exit(cli, "validate", "invalid configuration") EXCEPT
                           !.errs = errs]
                  ELSE Goto(cli, "validate", "handler")
    /\ UNCHANGED <<h, reqs, served, callbackCount, okCount, prev, probe>>

\* h := shove.Handler{EventDecoder: decodeEvent, Callback: config.HandleEvent}
MakeHandler ==
    /\ cli.pc = "handler"
    /\ h' = [ZeroHandler EXCEPT !.EventDecoder = "decodeEvent",
                                !.Callback = "config.HandleEvent"]
    /\ cli' = Goto(cli, "handler", "secret")
    /\ UNCHANGED <<reqs, served, callbackCount, okCount, prev, probe>>

\* h.SecretKey = os.Getenv("SHOVE_SECRET")
ReadSecret ==
    /\ cli.pc = "secret"
    /\ h' = [h EXCEPT !.SecretKey = Getenv(cli.environ, "SHOVE_SECRET")]
    /\ cli' = IF Getenv(cli.environ, "SHOVE_SECRET") = ""
              THEN Exit(cli, "secret",
                        "missing environment variable: SHOVE_SECRET")
              ELSE Goto(cli, "secret", "port")
    /\ UNCHANGED <<reqs, served, callbackCount, okCount, prev, probe>>

\* portStr := os.Getenv("SHOVE_PORT");
\* port, err := strconv.ParseUint(portStr, 10, 16)
ReadPort ==
    /\ cli.pc = "port"
    /\ LET portStr == Getenv(cli.environ, "SHOVE_PORT")
           got == ParseUint(portStr)
       IN  cli' = IF portStr = <<>>
                  THEN Exit(cli, "port",
                            "missing environment variable: SHOVE_PORT")
                  ELSE IF got.err # NoError
                  THEN Exit(cli, "port", "invalid SHOVE_PORT")
                  ELSE [Goto(cli, "port", "unsetenv") EXCEPT
                           !.port = got.val]
    /\ UNCHANGED <<h, reqs, served, callbackCount, okCount, prev, probe>>

\* os.Unsetenv("SHOVE_CONFIG"); os.Unsetenv("SHOVE_SECRET");
\* os.Unsetenv("SHOVE_PORT")
UnsetVariables ==
    /\ cli.pc = "unsetenv"
    /\ cli' = [Goto(cli, "unsetenv", "startup") EXCEPT
                  !.environ =
                      Unsetenv(Unsetenv(Unsetenv(@, "SHOVE_CONFIG"),
                                        "SHOVE_SECRET"),
                               "SHOVE_PORT")]
    /\ UNCHANGED <<h, reqs, served, callbackCount, okCount, prev, probe>>

\* config.HandleEvent("00000000-0000-0000-0000-000000000000",
\*                    ShoveStartupEvent{})
EmitStartup ==
    /\ cli.pc = "startup"
    /\ \E runErrs \in RunResults(cli.config, ShoveStartupEvent) :
          cli' = [Goto(cli, "startup", "listen") EXCEPT
                     !.startups = @ + 1,
                     !.log = @ \o HandleEvent(cli.config, StartupGuid,
                                              ShoveStartupEvent,
                                              cli.environ, runErrs)]
    /\ UNCHANGED <<h, reqs, served, callbackCount, okCount, prev, probe>>

\* http.Handle("/", h); http.ListenAndServe(":"+port, nil): the listener is
\* open, or the error is logged and the process exits
Listen ==
    /\ cli.pc = "listen"
    /\ \E bindErr \in {NoError, "address already in use"} :
          cli' = IF bindErr # NoError
                 THEN Exit(cli, "listen", bindErr)
                 ELSE [Goto(cli, "listen", "serving") EXCEPT
                          !.listening = TRUE]
    /\ UNCHANGED <<h, reqs, served, callbackCount, okCount, prev, probe>>

\* the events that the Callback is called with in a call of ServeHTTP,
\* handled one after the other
RECURSIVE HandleCalls(_, _, _, _, _)
HandleCalls(c, calls, environ, runErrs, i) ==
    IF i > Len(calls) THEN <<>>
    ELSE HandleEvent(c, calls[i].guid, calls[i].event, environ, runErrs)
           \o HandleCalls(c, calls, environ, runErrs, i + 1)

\* the server calls h.ServeHTTP(w, r) for a delivery, and the Callback of h
\* is config.HandleEvent
Deliver(r) ==
    /\ cli.pc = "serving"
    /\ cli.deliveries < MaxDeliveries
    /\ LET st == ServeHTTP(h, r)
           e == IF st.calls = <<>> THEN NilEvent ELSE st.calls[1].event
       IN  \E runErrs \in RunResults(cli.config, e) :
          LET ran == HandleCalls(cli.config, st.calls, cli.environ,
                                 runErrs, 1)
          IN  cli' = [cli EXCEPT
                         !.steps = Append(@, "deliver"),
                         !.deliveries = @ + 1,
                         !.last = [req |-> r, status |-> st.status,
                                   out |-> st.out, ran |-> ran]]
    /\ UNCHANGED <<h, reqs, served, callbackCount, okCount, prev, probe>>

\* the deliveries sent to the program: signed ones of each body and event
\* type, a push that is not signed, one signed with another key, and a GET
CliRequests ==
    LET signed == { [Method |-> "POST", Body |-> b, ReadErr |-> NoError,
                     Hub |-> SignGitHub("verysecret", b), Gitea |-> <<>>,
                     EventType |-> t, Delivery |-> "first"] :
                    b \in {Body42, BodyPushBar, BodyPushTag, BodyPushBad},
                    t \in {"ping", "push", "issues", "shove-startup"} }
        push == [Method |-> "POST", Body |-> BodyPushBar, ReadErr |-> NoError,
                 Hub |-> SignGitHub("verysecret", BodyPushBar),
                 Gitea |-> <<>>, EventType |-> "push", Delivery |-> "second"]
    IN  signed \cup { [push EXCEPT !.Hub = <<>>],
                      [push EXCEPT !.Hub = SignGitHub("othersecret",
                                                      BodyPushBar)],
                      [push EXCEPT !.Hub = <<>>,
                                   !.Gitea = SignGitea("verysecret",
                                                       BodyPushBar)],
                      [push EXCEPT !.Method = "GET"] }

NextCli ==
    \/ ReadConfig
    \/ UnmarshalConfig
    \/ ValidateConfig
    \/ MakeHandler
    \/ ReadSecret
    \/ ReadPort
    \/ UnsetVariables
    \/ EmitStartup
    \/ Listen
    \/ \E r \in CliRequests : Deliver(r)

SpecCli == InitCli /\ [][NextCli]_vars

(***************************************************************************)
(* Action.Matches called with an action of up to two triggers.             *)
(***************************************************************************)
ProbeActions ==
    LET triggers ==
            { Trigger(ev, rp) :
                ev \in {<<>>, <<TypePush>>, <<TypeShoveStartup>>,
                        <<TypeShoveStartup, TypePush>>, <<TypePing>>},
                rp \in {<<>>, <<RepoBar>>, <<RepoBaz>>,
                        <<RepoBaz, RepoBar>>} }
    IN  { [ActHello EXCEPT !.Triggers = ts] :
            ts \in {<<>>} \cup { <<t>> : t \in triggers }
                          \cup { <<t, u>> : t, u \in triggers } }

\* a push to foo/bar, a push to foo/baz, a push whose payload names no
\* repository, and the pseudo-event
ProbeEvents ==
    { decodeEvent("push", BodyPushBar).event,
      decodeEvent("push", BodyPushTag).event,
      decodeEvent("push", Body42).event,
      ShoveStartupEvent }

InitMatches ==
    /\ h = ZeroHandler
    /\ reqs = [s \in Slots |-> Idle]
    /\ served = 0
    /\ callbackCount = 0
    /\ okCount = 0
    /\ prev = Idle
    /\ cli = NotStarted
    /\ probe \in [pc : {"call"}, action : ProbeActions, event : ProbeEvents,
                  result : {FALSE}]

\* action.Matches(event) is called and returns
CallMatches ==
    /\ probe.pc = "call"
    /\ probe' = [probe EXCEPT !.pc = "returned",
                              !.result = Matches(probe.action, probe.event)]
    /\ UNCHANGED <<h, reqs, served, callbackCount, okCount, prev, cli>>

SpecMatches == InitMatches /\ [][CallMatches]_vars

(***************************************************************************)
(* Properties of ServeHTTP.                                                *)
(***************************************************************************)
InTrace(st, name) == \E i \in 1..Len(st.trace) : st.trace[i] = name

\* stage a is in the trace and comes before every occurrence of stage b
Precedes(st, a, b) ==
    \A j \in 1..Len(st.trace) :
        st.trace[j] = b => \E i \in 1..(j - 1) : st.trace[i] = a

\* the request passed signature verification, the decoder returned no error
\* and the decoder returned an event that is not nil
Dispatchable(st) ==
    /\ st.sigErr = NoError
    /\ st.decErr = NoError
    /\ st.event # NilEvent

\* C1: the Callback is invoked for a request if and only if the request
\* passed signature verification, the decoder returned no error and the
\* decoder returned a non-nil event: no invocation is ever made without the
\* three, and a request that has them has its invocation when ServeHTTP
\* returns.
C1_CallbackIffVerifiedAndDecoded ==
    \A s \in Slots :
        /\ reqs[s].calls # <<>> => Dispatchable(reqs[s])
        /\ reqs[s].pc = "done" =>
              (reqs[s].calls # <<>> <=> Dispatchable(reqs[s]))

C1_Witness ==
    \E s \in Slots :
        /\ reqs[s].pc = "done"
        /\ Dispatchable(reqs[s])
        /\ Len(reqs[s].calls) = 1

\* C2: a request answered 204 caused exactly one Callback invocation and a
\* request answered with any other status caused none; so whenever no
\* request is in flight, the number of Callback invocations equals the
\* number of requests answered 204.
C2_OneCallbackPer204 ==
    /\ \A s \in Slots :
          reqs[s].pc = "done" =>
              Len(reqs[s].calls) =
                  (IF reqs[s].status = StatusNoContent THEN 1 ELSE 0)
    /\ NoneInFlight => callbackCount = okCount

C2_Witness ==
    /\ NoneInFlight
    /\ okCount = 2
    /\ callbackCount = 2
    /\ served = 3

\* C3: a request whose method is not POST is answered 405 "method not
\* allowed" and never invokes the Callback, whatever its signature and event
\* type; the method check is the first stage of every request, and for a
\* non-POST request the only one (no body read, signature check or decoder).
C3_MethodCheckFirst ==
    \A s \in Slots :
        /\ reqs[s].trace # <<>> => reqs[s].trace[1] = "method"
        /\ (reqs[s].req.Method # "POST" /\ reqs[s].pc \notin {"idle", "method"}) =>
              /\ reqs[s].pc = "done"
              /\ reqs[s].status = StatusMethodNotAllowed
              /\ reqs[s].out = <<"method not allowed">>
              /\ reqs[s].calls = <<>>
              /\ reqs[s].trace = <<"method">>
              /\ reqs[s].body = NoBody

\* a GET with a valid signature and a supported event type, answered
C3_Witness ==
    \E s \in Slots :
        /\ reqs[s].pc = "done"
        /\ reqs[s].req.Method = "GET"
        /\ reqs[s].req.ReadErr = NoError
        /\ reqs[s].req.Hub = SignGitHub(h.SecretKey, reqs[s].req.Body)
        /\ eventDecoder(h, reqs[s].req.EventType, reqs[s].req.Body).event # NilEvent
        /\ reqs[s].status = StatusMethodNotAllowed

\* the X-Hub-Signature of the request is there (after trimming) and is not
\* the signature of the body under the handler's key
HubMalformedOrMismatching(st) ==
    /\ TrimSpace(st.req.Hub) # <<>>
    /\ TrimSpace(st.req.Hub) # SignGitHub(h.SecretKey, st.body)

Blank(hdr) == TrimSpace(hdr) = <<>>

\* the call ended at the signature check with this error text, before the
\* decoder and the Callback
RejectedBySignature(st, text) ==
    /\ st.status = StatusUnauthorized
    /\ st.out = <<text>>
    /\ ~InTrace(st, "decode")
    /\ st.decErr = NotRun
    /\ st.calls = <<>>

C6_NilEventIs501 ==
    \A s \in Slots :
        (InTrace(reqs[s], "decode")
            /\ eventDecoder(h, reqs[s].req.EventType, reqs[s].body) =
                  [event |-> NilEvent, err |-> NoError]) =>
            /\ reqs[s].sigErr = NoError
            /\ reqs[s].pc = "done"
            /\ reqs[s].status = StatusNotImplemented
            /\ reqs[s].out = <<"event type not supported">>
            /\ reqs[s].calls = <<>>

C6_Witness ==
    \E s \in Slots :
        /\ reqs[s].pc = "done"
        /\ reqs[s].sigErr = NoError
        /\ reqs[s].decErr = NoError
        /\ reqs[s].event = NilEvent
        /\ reqs[s].status = StatusNotImplemented

\* C7: for an authenticated POST, if the decoder returns a non-nil error
\* the handler answers 400 with the decoder's error text and the Callback is
\* never invoked, also when the decoder returned a non-nil event with the
\* error.
C7_DecoderErrorIs400 ==
    \A s \in Slots :
        (InTrace(reqs[s], "decode")
            /\ eventDecoder(h, reqs[s].req.EventType, reqs[s].body).err # NoError) =>
            /\ reqs[s].sigErr = NoError
            /\ reqs[s].pc = "done"
            /\ reqs[s].status = StatusBadRequest
            /\ reqs[s].out =
                  <<eventDecoder(h, reqs[s].req.EventType, reqs[s].body).err>>
            /\ reqs[s].calls = <<>>

\* the decoder returned an error and a non-nil event
C7_Witness ==
    \E s \in Slots :
        /\ reqs[s].pc = "done"
        /\ reqs[s].decErr = errUnmarshalString
        /\ reqs[s].event # NilEvent
        /\ reqs[s].status = StatusBadRequest

\* C8: on the success path (POST, valid signature, decoder returns a non-nil
\* event and no error) the Callback is invoked exactly once, with the value
\* of X-GitHub-Delivery and the event the decoder returned for the event
\* type and the body read; the response, written after it, is 204 with an
\* empty body.
C8_SuccessPath ==
    \A s \in Slots :
        /\ Precedes(reqs[s], "callback", "respond")
        /\ (reqs[s].pc = "done" /\ Dispatchable(reqs[s])) =>
              /\ reqs[s].req.Method = "POST"
              /\ reqs[s].calls =
                    << [guid |-> reqs[s].req.Delivery,
                        event |-> eventDecoder(h, reqs[s].req.EventType,
                                      LimitReader(reqs[s].req.Body)).event] >>
              /\ reqs[s].status = StatusNoContent
              /\ reqs[s].out = <<>>

C8_Witness ==
    \E s \in Slots :
        /\ reqs[s].pc = "done"
        /\ reqs[s].status = StatusNoContent
        /\ reqs[s].calls = <<[guid |-> "second", event |-> testEvent(42)]>>

\* neither signature check, decoder nor Callback has run
OnlyMethodAndRead(st) ==
    /\ st.trace = <<"method", "read">>
    /\ st.hubErr = NotRun
    /\ st.giteaErr = NotRun
    /\ st.decErr = NotRun
    /\ st.calls = <<>>

C9_WitnessReadError ==
    \E s \in Slots :
        /\ reqs[s].pc = "done"
        /\ reqs[s].req.ReadErr # NoError
        /\ reqs[s].status = StatusInternalServerError

(***************************************************************************)
(* Properties of the signature checks, under SpecVerify.                   *)
(***************************************************************************)
\* C10 as stated: "sha1=" + hex(HMAC-SHA1(K, B)) is accepted, and every
\* other 45-character header value is rejected with InvalidSignature.
C10_AsStated ==
    \A s \in Slots :
        reqs[s].hubErr # NotRun =>
            /\ reqs[s].req.Hub = SignGitHub(h.SecretKey, reqs[s].body) =>
                  reqs[s].hubErr = NoError
            /\ (Len(reqs[s].req.Hub) = GitHubSignatureLen
                    /\ reqs[s].req.Hub # SignGitHub(h.SecretKey, reqs[s].body)) =>
                  reqs[s].hubErr = errInvalidSignature

\* C10, amended: for every key K and body B, "sha1=" + hex(HMAC-SHA1(K, B))
\* is accepted, and every other 45-character header value that is not white
\* space only is rejected with InvalidSignature (401); a 45-character value
\* of white space only counts as absent (NoSignature), and the Gitea check
\* decides.
C10_GitHubSignatureAcceptedIffExact ==
    \A s \in Slots :
        reqs[s].hubErr # NotRun =>
            /\ reqs[s].req.Hub = SignGitHub(h.SecretKey, reqs[s].body) =>
                  /\ reqs[s].hubErr = NoError
                  /\ reqs[s].sigErr = NoError
            /\ (Len(reqs[s].req.Hub) = GitHubSignatureLen
                    /\ reqs[s].req.Hub # SignGitHub(h.SecretKey, reqs[s].body)) =>
                  IF Blank(reqs[s].req.Hub)
                  THEN /\ reqs[s].hubErr = errNoSignature
                       /\ reqs[s].pc # "gitea" => reqs[s].giteaErr # NotRun
                  ELSE /\ reqs[s].hubErr = errInvalidSignature
                       /\ reqs[s].status = StatusUnauthorized
                       /\ reqs[s].pc = "done"

\* the right signature with its last character changed, rejected
C10_Witness ==
    \E s \in Slots :
        /\ reqs[s].pc = "done"
        /\ reqs[s].req.Hub =
              Flip(SignGitHub(h.SecretKey, reqs[s].body), GitHubSignatureLen)
        /\ reqs[s].hubErr = errInvalidSignature
        /\ reqs[s].status = StatusUnauthorized

\* the right signature, accepted
C10_WitnessAccepted ==
    \E s \in Slots :
        /\ reqs[s].pc = "done"
        /\ h.SecretKey = "othersecret"
        /\ reqs[s].req.Hub = SignGitHub(h.SecretKey, reqs[s].body)
        /\ reqs[s].status = StatusNoContent

\* 45 spaces beside a right X-Gitea-Signature, accepted
C10_WitnessBlank ==
    \E s \in Slots :
        /\ reqs[s].pc = "done"
        /\ reqs[s].req.Hub = Spaces(GitHubSignatureLen)
        /\ reqs[s].hubErr = errNoSignature
        /\ reqs[s].status = StatusNoContent

(***************************************************************************)
(* Properties of the Gitea-style check, under SpecVerifyGitea.             *)
(***************************************************************************)
\* C11 as stated: hex(HMAC-SHA256(K, B)) with no prefix is accepted, and
\* every other 64-character header value is rejected with InvalidSignature.
C11_AsStated ==
    \A s \in Slots :
        reqs[s].giteaErr # NotRun =>
            /\ reqs[s].req.Gitea = SignGitea(h.SecretKey, reqs[s].body) =>
                  reqs[s].giteaErr = NoError
            /\ (Len(reqs[s].req.Gitea) = GiteaSignatureLen
                    /\ reqs[s].req.Gitea # SignGitea(h.SecretKey, reqs[s].body)) =>
                  reqs[s].giteaErr = errInvalidSignature

\* C11, amended: for every key K and body B, hex(HMAC-SHA256(K, B)) with no
\* prefix is accepted, and every other 64-character header value that is not
\* white space only is rejected with InvalidSignature (401); a 64-character
\* value of white space only counts as absent (NoSignature, 401 with the
\* "missing signature header" text).
C11_GiteaSignatureAcceptedIffExact ==
    \A s \in Slots :
        reqs[s].giteaErr # NotRun =>
            /\ reqs[s].req.Gitea = SignGitea(h.SecretKey, reqs[s].body) =>
                  /\ reqs[s].giteaErr = NoError
                  /\ reqs[s].sigErr = NoError
                  /\ reqs[s].status # StatusUnauthorized
            /\ (Len(reqs[s].req.Gitea) = GiteaSignatureLen
                    /\ reqs[s].req.Gitea # SignGitea(h.SecretKey, reqs[s].body)) =>
                  /\ reqs[s].giteaErr =
                        (IF Blank(reqs[s].req.Gitea)
                         THEN errNoSignature ELSE errInvalidSignature)
                  /\ reqs[s].pc = "done"
                  /\ reqs[s].status = StatusUnauthorized
                  /\ reqs[s].out = <<reqs[s].giteaErr>>

\* the right signature with its last character changed, rejected
C11_Witness ==
    \E s \in Slots :
        /\ reqs[s].pc = "done"
        /\ reqs[s].req.Gitea =
              Flip(SignGitea(h.SecretKey, reqs[s].body), GiteaSignatureLen)
        /\ reqs[s].giteaErr = errInvalidSignature
        /\ reqs[s].status = StatusUnauthorized

\* the right signature, accepted
C11_WitnessAccepted ==
    \E s \in Slots :
        /\ reqs[s].pc = "done"
        /\ h.SecretKey = "othersecret"
        /\ reqs[s].req.Gitea = SignGitea(h.SecretKey, reqs[s].body)
        /\ reqs[s].giteaErr = NoError
        /\ reqs[s].status = StatusNoContent

\* 64 spaces, answered as a missing header
C11_WitnessBlank ==
    \E s \in Slots :
        /\ reqs[s].pc = "done"
        /\ reqs[s].req.Gitea = Spaces(GiteaSignatureLen)
        /\ reqs[s].giteaErr = errNoSignature
        /\ reqs[s].out = <<errNoSignature>>

(***************************************************************************)
(* Properties of ServeHTTP, continued (under Spec unless said otherwise).  *)
(***************************************************************************)
\* the signature header a check has consulted has, trimmed, a length other
\* than the one the check wants, and is not empty
WrongLength(header, want) ==
    /\ TrimSpace(header) # <<>>
    /\ Len(TrimSpace(header)) # want

C12_WitnessGitHub ==
    \E s \in Slots :
        /\ reqs[s].pc = "done"
        /\ reqs[s].hubErr = errInvalidSignature
        /\ Len(reqs[s].req.Hub) = 7
        /\ ~InTrace(reqs[s], "hmac-sha1")

\* the request carries the signature of the body under the handler's key, in
\* X-Hub-Signature or, when that header is blank, in X-Gitea-Signature
Signed(hd, r, body) ==
    \/ TrimSpace(r.Hub) = SignGitHub(hd.SecretKey, body)
    \/ /\ TrimSpace(r.Hub) = <<>>
       /\ TrimSpace(r.Gitea) = SignGitea(hd.SecretKey, body)

\* the first of the five checks that request r fails at handler hd
FirstFailure(hd, r) ==
    IF r.Method # "POST" THEN "method"
    ELSE IF r.ReadErr # NoError THEN "read"
    ELSE LET body == LimitReader(r.Body)
             got == eventDecoder(hd, r.EventType, body)
         IN  IF ~Signed(hd, r, body) THEN "signature"
             ELSE IF got.err # NoError THEN "decoder"
             ELSE IF got.event = NilEvent THEN "event"
             ELSE "none"

StatusOfFailure(f) ==
    CASE f = "method" -> StatusMethodNotAllowed
      [] f = "read" -> StatusInternalServerError
      [] f = "signature" -> StatusUnauthorized
      [] f = "decoder" -> StatusBadRequest
      [] f = "event" -> StatusNotImplemented
      [] f = "none" -> StatusNoContent

\* the stages that are run when f is the first failure
StagesOfFailure(f) ==
    CASE f = "method" -> {"method"}
      [] f = "read" -> {"method", "read"}
      [] f = "signature" ->
            {"method", "read", "github", "hmac-sha1", "gitea", "hmac-sha256"}
      [] f \in {"decoder", "event"} ->
            {"method", "read", "github", "hmac-sha1", "gitea", "hmac-sha256",
             "decode"}
      [] f = "none" ->
            {"method", "read", "github", "hmac-sha1", "gitea", "hmac-sha256",
             "decode", "callback", "respond"}

\* C13: the handler is a strict linear gate: the response is the one of the
\* first failing stage in the order method check (405), body read (500),
\* signature check (401), decoder error (400), absent event (501), and no
\* later stage runs once a stage has failed.
C13_StrictLinearGate ==
    \A s \in Slots :
        /\ reqs[s].status # 0 => reqs[s].pc = "done"
        /\ reqs[s].pc # "idle" =>
              \A i \in 1..Len(reqs[s].trace) :
                  reqs[s].trace[i] \in
                      StagesOfFailure(FirstFailure(h, reqs[s].req))
        /\ reqs[s].pc = "done" =>
              reqs[s].status = StatusOfFailure(FirstFailure(h, reqs[s].req))

\* a POST with no signature and an event type the decoder does not support,
\* answered 401
C13_Witness ==
    \E s \in Slots :
        /\ reqs[s].pc = "done"
        /\ reqs[s].req.Method = "POST"
        /\ reqs[s].req.ReadErr = NoError
        /\ reqs[s].req.Hub = <<>>
        /\ reqs[s].req.Gitea = <<>>
        /\ eventDecoder(h, reqs[s].req.EventType, reqs[s].body).event = NilEvent
        /\ reqs[s].status = StatusUnauthorized
        /\ ~InTrace(reqs[s], "decode")

(***************************************************************************)
(* Termination of ServeHTTP, under SpecAnyHandler.                         *)
(***************************************************************************)
ResponseStatuses ==
    {StatusMethodNotAllowed, StatusInternalServerError, StatusUnauthorized,
     StatusBadRequest, StatusNotImplemented, StatusNoContent}

\* the call has ended with one response: one status, and the one line of
\* http.Error unless the status is 204
OneResponse(st) ==
    /\ st.status \in ResponseStatuses
    /\ Len(st.out) = (IF st.status = StatusNoContent THEN 0 ELSE 1)

\* C14 as stated: for every handler configuration, the one with no Callback
\* included, no call of ServeHTTP crashes, and a call that has ended has
\* written one response with a status among 405, 500, 401, 400, 501, 204.
C14_AsStated ==
    \A s \in Slots :
        /\ reqs[s].pc # "panic"
        /\ reqs[s].pc = "done" => OneResponse(reqs[s])

\* C14, amended: for every request and every handler configuration with a
\* Callback (with or without a decoder), ServeHTTP terminates having written
\* exactly one response whose status is one of 405, 500, 401, 400, 501, 204.
\* With no Callback configured the same holds for every request that fails
\* a check, but a request that passes all checks panics at the call of the
\* nil Callback and ends without a response.
C14_TerminatesWithOneResponse ==
    /\ [](\A s \in Slots :
            /\ reqs[s].pc = "done" => OneResponse(reqs[s])
            /\ reqs[s].pc = "panic" <=>
                  /\ h.Callback = "nil"
                  /\ InTrace(reqs[s], "callback")
            /\ reqs[s].pc = "panic" =>
                  /\ FirstFailure(h, reqs[s].req) = "none"
                  /\ reqs[s].status = 0
                  /\ reqs[s].out = <<>>)
    /\ \A s \in Slots :
          reqs[s].pc = "method" ~> reqs[s].pc \in {"done", "panic"}

\* a call of a handler with no decoder that has ended with 204
C14_Witness ==
    \E s \in Slots :
        /\ reqs[s].pc = "done"
        /\ h.EventDecoder = "nil"
        /\ h.Callback = "func"
        /\ reqs[s].status = StatusNoContent

\* a call of a handler with no Callback that has ended with a response
C14_WitnessNoCallback ==
    \E s \in Slots :
        /\ reqs[s].pc = "done"
        /\ h.Callback = "nil"
        /\ reqs[s].status = StatusNotImplemented

\* a call of a handler with no Callback that has panicked
C14_WitnessPanic ==
    \E s \in Slots : reqs[s].pc = "panic" /\ h.Callback = "nil"

(***************************************************************************)
(* Properties of ServeHTTP, continued (under Spec).                        *)
(***************************************************************************)
\* C15: with no EventDecoder configured the MinimalEventDecoder is used: an
\* authenticated POST with event type "ping" yields the ping event (Callback
\* invoked once, 204), one with any other event type yields no event and no
\* error (501, no Callback invocation); the decoder never returns an error.
C15_MinimalDecoderByDefault ==
    \A s \in Slots :
        (h.EventDecoder = "nil" /\ reqs[s].pc = "done"
             /\ reqs[s].sigErr = NoError) =>
            /\ reqs[s].decErr = NoError
            /\ reqs[s].status # StatusBadRequest
            /\ IF reqs[s].req.EventType = "ping"
               THEN /\ reqs[s].event = MinimalPingEvent
                    /\ reqs[s].event # NilEvent
                    /\ reqs[s].calls = <<[guid |-> reqs[s].req.Delivery,
                                          event |-> MinimalPingEvent]>>
                    /\ reqs[s].status = StatusNoContent
                    /\ reqs[s].out = <<>>
               ELSE /\ reqs[s].event = NilEvent
                    /\ reqs[s].calls = <<>>
                    /\ reqs[s].status = StatusNotImplemented
                    /\ reqs[s].out = <<"event type not supported">>

\* an authenticated ping at a handler with no decoder, answered 204
C15_Witness ==
    \E s \in Slots :
        /\ h.EventDecoder = "nil"
        /\ reqs[s].pc = "done"
        /\ reqs[s].sigErr = NoError
        /\ reqs[s].req.EventType = "ping"
        /\ reqs[s].status = StatusNoContent
        /\ Len(reqs[s].calls) = 1

\* an authenticated event of another type at such a handler, answered 501
C15_WitnessOtherType ==
    \E s \in Slots :
        /\ h.EventDecoder = "nil"
        /\ reqs[s].pc = "done"
        /\ reqs[s].sigErr = NoError
        /\ reqs[s].req.EventType # "ping"
        /\ reqs[s].status = StatusNotImplemented

\* C16: on the success path the Callback is invoked inside the request: no
\* status is written before the Callback is called or while it runs, and
\* the 204 is written only after the Callback has returned.
C16_NoContentOnlyAfterCallback ==
    \A s \in Slots :
        /\ reqs[s].pc = "callback" =>
              reqs[s].status = 0 /\ reqs[s].out = <<>>
        /\ reqs[s].pc = "respond" =>
              /\ reqs[s].status = 0 /\ reqs[s].out = <<>>
              /\ Len(reqs[s].calls) = 1
        /\ reqs[s].status = StatusNoContent =>
              /\ Len(reqs[s].calls) = 1
              /\ InTrace(reqs[s], "respond")
              /\ Precedes(reqs[s], "callback", "respond")
        /\ (InTrace(reqs[s], "callback") /\ reqs[s].status # 0) =>
              reqs[s].status = StatusNoContent

\* the Callback has returned and no status is written yet
C16_Witness ==
    \E s \in Slots :
        /\ reqs[s].pc = "respond"
        /\ Len(reqs[s].calls) = 1
        /\ reqs[s].status = 0

\* the 204 is written
C16_WitnessNoContent ==
    \E s \in Slots :
        /\ reqs[s].pc = "done"
        /\ reqs[s].status = StatusNoContent
        /\ reqs[s].trace[Len(reqs[s].trace)] = "respond"

(***************************************************************************)
(* Calls of ServeHTTP in flight at once, under SpecConcurrent.             *)
(***************************************************************************)
\* C17: for requests handled concurrently in any interleaving, each
\* request's response (status and body) and its Callback invocation (or the
\* absence of one) are the same as if the request were handled alone, and
\* the handler's SecretKey, EventDecoder and Callback are never modified.
C17_ConcurrentAsAlone ==
    /\ [](\A s \in Slots :
            reqs[s].pc = "done" =>
                LET alone == ServeHTTP(h, reqs[s].req)
                IN  /\ reqs[s].status = alone.status
                    /\ reqs[s].out = alone.out
                    /\ reqs[s].calls = alone.calls
                    /\ reqs[s].trace = alone.trace)
    /\ [][h' = h]_vars

\* a call has ended with 204 while a call for another request, which ends
\* otherwise, is between its body read and its response
C17_Witness ==
    \E s, t \in Slots :
        /\ s # t
        /\ reqs[s].pc = "done"
        /\ reqs[s].status = StatusNoContent
        /\ reqs[t].pc \in {"github", "gitea", "decode", "callback", "respond"}
        /\ reqs[t].req.Body # reqs[s].req.Body

(***************************************************************************)
(* A request and the one served before it, under SpecReplay.               *)
(***************************************************************************)
\* C18: the handler keeps no memory of earlier deliveries: the identical
\* authenticated request handled twice gives two 204 responses and two
\* Callback invocations with equal arguments, and the outcome of a request
\* never depends on the requests handled before it.
C18_NoMemoryOfEarlierDeliveries ==
    \A s \in Slots :
        reqs[s].pc = "done" =>
            /\ LET alone == ServeHTTP(h, reqs[s].req)
               IN  /\ reqs[s].status = alone.status
                   /\ reqs[s].out = alone.out
                   /\ reqs[s].calls = alone.calls
            /\ prev.req = reqs[s].req =>
                  /\ reqs[s].status = prev.status
                  /\ reqs[s].out = prev.out
                  /\ reqs[s].calls = prev.calls
            /\ (prev.req = reqs[s].req /\ prev.status = StatusNoContent) =>
                  /\ reqs[s].status = StatusNoContent
                  /\ Len(reqs[s].calls) = 1
                  /\ okCount >= 2
                  /\ callbackCount >= 2

\* the identical request served twice in a row, with 204 both times
C18_Witness ==
    \E s \in Slots :
        /\ reqs[s].pc = "done"
        /\ prev.req = reqs[s].req
        /\ prev.status = StatusNoContent
        /\ reqs[s].status = StatusNoContent
        /\ reqs[s].calls = prev.calls
        /\ okCount = 2
        /\ callbackCount = 2

\* the call carries the right signature of one scheme and no header of the
\* other
HubOnly(hd, st) ==
    /\ st.req.Hub = SignGitHub(hd.SecretKey, st.body)
    /\ st.req.Gitea = <<>>

GiteaOnly(hd, st) ==
    /\ st.req.Hub = <<>>
    /\ st.req.Gitea = SignGitea(hd.SecretKey, st.body)

\* two finished calls for the same body, event type and delivery identifier,
\* one signed in the GitHub style only and one in the Gitea style only
TwinsByScheme(hd, a, b) ==
    /\ a.pc = "done" /\ b.pc = "done"
    /\ a.req.Method = "POST" /\ b.req.Method = "POST"
    /\ a.req.Body = b.req.Body
    /\ a.req.EventType = b.req.EventType
    /\ a.req.Delivery = b.req.Delivery
    /\ \/ HubOnly(hd, a) /\ GiteaOnly(hd, b)
       \/ GiteaOnly(hd, a) /\ HubOnly(hd, b)

\* C19: for the same secret key, body, event type and delivery identifier,
\* a POST with only a correct Gitea-style signature and a POST with only a
\* correct GitHub-style signature get the same response and the same
\* Callback invocation (same delivery identifier, identical decoded event).
C19_SchemeEquivalence ==
    \A s \in Slots :
        TwinsByScheme(h, prev, reqs[s]) =>
            /\ reqs[s].sigErr = NoError /\ prev.sigErr = NoError
            /\ reqs[s].status = prev.status
            /\ reqs[s].out = prev.out
            /\ reqs[s].event = prev.event
            /\ reqs[s].calls = prev.calls

\* a GitHub-signed request answered 204, then its Gitea-signed twin
\* answered 204 with the same Callback invocation
C19_Witness ==
    \E s \in Slots :
        /\ TwinsByScheme(h, prev, reqs[s])
        /\ HubOnly(h, prev)
        /\ prev.status = StatusNoContent
        /\ reqs[s].status = StatusNoContent
        /\ Len(reqs[s].calls) = 1
        /\ reqs[s].calls = prev.calls

\* such twins answered 400 both
C19_WitnessDecoderError ==
    \E s \in Slots :
        /\ TwinsByScheme(h, prev, reqs[s])
        /\ GiteaOnly(h, prev)
        /\ prev.status = StatusBadRequest
        /\ reqs[s].status = StatusBadRequest

(***************************************************************************)
(* The documentation of type EventDecoder, under Spec.                     *)
(***************************************************************************)
\* C20 as documented on type EventDecoder: if the decoder returns an error,
\* the error is written into the HTTP response body and an error code of
\* 401 is generated.
C20_AsDocumented ==
    \A s \in Slots :
        (reqs[s].pc = "done" /\ reqs[s].decErr \notin {NotRun, NoError}) =>
            /\ reqs[s].out = <<reqs[s].decErr>>
            /\ reqs[s].status = StatusUnauthorized

\* the decoder has returned an error and ServeHTTP has answered 400
C20_Witness ==
    \E s \in Slots :
        /\ reqs[s].pc = "done"
        /\ reqs[s].decErr = errUnmarshalString
        /\ reqs[s].out = <<errUnmarshalString>>
        /\ reqs[s].status = StatusBadRequest

(***************************************************************************)
(* Properties of ServeHTTP, continued (under Spec).                        *)
(***************************************************************************)
\* how often a stage is in the trace of a call
TimesInTrace(st, name) ==
    Cardinality({i \in 1..Len(st.trace) : st.trace[i] = name})

\* C21: the decoder is called at most once per request, and only for a
\* request that has passed the method check, the body read and the signature
\* verification: the payload of an unauthenticated request is never handed
\* to the decoder.
C21_DecoderOnlyAfterVerification ==
    \A s \in Slots :
        /\ TimesInTrace(reqs[s], "decode") <= 1
        /\ reqs[s].decErr # NotRun <=> InTrace(reqs[s], "decode")
        /\ InTrace(reqs[s], "decode") =>
              /\ reqs[s].req.Method = "POST"
              /\ reqs[s].readErr = NoError
              /\ reqs[s].sigErr = NoError
              /\ Signed(h, reqs[s].req, reqs[s].body)
              /\ Precedes(reqs[s], "method", "read")
              /\ Precedes(reqs[s], "read", "github")
              /\ Precedes(reqs[s], "github", "decode")
        /\ (reqs[s].pc = "done"
                /\ \/ reqs[s].req.Method # "POST"
                   \/ reqs[s].readErr # NoError
                   \/ ~Signed(h, reqs[s].req, reqs[s].body)) =>
              ~InTrace(reqs[s], "decode")

\* the decoder has run, once, for a request with the right signature
C21_Witness ==
    \E s \in Slots :
        /\ reqs[s].pc = "done"
        /\ TimesInTrace(reqs[s], "decode") = 1
        /\ reqs[s].decErr = errUnmarshalString
        /\ Signed(h, reqs[s].req, reqs[s].body)

\* a request with a wrong signature has ended and the decoder has not run
C21_WitnessUnauthenticated ==
    \E s \in Slots :
        /\ reqs[s].pc = "done"
        /\ reqs[s].req.Hub = SignGitHub("verysecret", BodyFoobar)
        /\ reqs[s].req.Body = Body42
        /\ reqs[s].decErr = NotRun

\* C22: the secret key is never echoed to the client: for two handlers that
\* differ only in SecretKey, a request that fails signature verification
\* under both, or passes under both, gets the identical response; the 401
\* bodies are the two fixed texts, whatever the key, the body and the
\* expected signature.
C22_ResponseIndependentOfKey ==
    \A s \in Slots :
        reqs[s].pc = "done" =>
            /\ reqs[s].status = StatusUnauthorized =>
                  reqs[s].out \in {<<errNoSignature>>, <<errInvalidSignature>>}
            /\ \A k \in Keys :
                  LET other == ServeHTTP([h EXCEPT !.SecretKey = k],
                                         reqs[s].req)
                  IN  ((other.sigErr = NoError) <=> (reqs[s].sigErr = NoError))
                         => /\ other.status = reqs[s].status
                            /\ other.out = reqs[s].out

\* a request signed with neither key's signature of its body, answered 401
\* by the handler and by the handler with the other key
C22_Witness ==
    \E s \in Slots :
        /\ reqs[s].pc = "done"
        /\ reqs[s].hubErr = errInvalidSignature
        /\ reqs[s].status = StatusUnauthorized
        /\ \E k \in Keys :
              /\ k # h.SecretKey
              /\ ServeHTTP([h EXCEPT !.SecretKey = k], reqs[s].req).status
                    = StatusUnauthorized

(***************************************************************************)
(* White space around a signature header, under SpecTrim.                  *)
(***************************************************************************)
\* what a signature check returns for a header, given the right signature
CheckedTrimmed(header, right) ==
    IF TrimSpace(header) = <<>> THEN errNoSignature
    ELSE IF TrimSpace(header) = right THEN NoError
    ELSE errInvalidSignature

\* C26: both signature checks trim the white space around the header value
\* before the emptiness check, the length check and the comparison: a right
\* signature with white space before or after it is accepted, and an
\* X-Hub-Signature of white space only counts as absent (NoSignature), so
\* that the X-Gitea-Signature check decides.
C26_HeadersAreTrimmed ==
    \A s \in Slots :
        /\ reqs[s].hubErr # NotRun =>
              /\ reqs[s].hubErr =
                    CheckedTrimmed(reqs[s].req.Hub,
                                   SignGitHub(h.SecretKey, reqs[s].body))
              /\ (Blank(reqs[s].req.Hub) /\ reqs[s].pc # "gitea") =>
                    /\ InTrace(reqs[s], "gitea")
                    /\ reqs[s].sigErr = reqs[s].giteaErr
        /\ reqs[s].giteaErr # NotRun =>
              reqs[s].giteaErr =
                  CheckedTrimmed(reqs[s].req.Gitea,
                                 SignGitea(h.SecretKey, reqs[s].body))
        /\ (reqs[s].pc = "done" /\ reqs[s].sigErr = NoError) =>
              reqs[s].status = StatusNoContent

\* a right X-Hub-Signature between white space, accepted
C26_Witness ==
    \E s \in Slots :
        /\ reqs[s].pc = "done"
        /\ reqs[s].req.Hub =
              <<" ", "\t">> \o SignGitHub(h.SecretKey, reqs[s].body) \o <<" ">>
        /\ reqs[s].hubErr = NoError
        /\ reqs[s].status = StatusNoContent

\* an X-Hub-Signature of white space and a right X-Gitea-Signature between
\* white space, accepted by the second check
C26_WitnessFallback ==
    \E s \in Slots :
        /\ reqs[s].pc = "done"
        /\ reqs[s].req.Hub = <<"\t", "\n">>
        /\ reqs[s].hubErr = errNoSignature
        /\ reqs[s].req.Gitea =
              <<" ", " ">> \o SignGitea(h.SecretKey, reqs[s].body) \o <<"\t">>
        /\ reqs[s].giteaErr = NoError
        /\ reqs[s].status = StatusNoContent

(***************************************************************************)
(* Properties of the command-line program.                                 *)
(***************************************************************************)
\* the lines logged by main() and for the last delivery
Logged == cli.log \o cli.last.ran

\* a statement of main() has run
InSteps(step) == \E i \in DOMAIN cli.steps : cli.steps[i] = step

\* the events of type shove-startup that HandleEvent has reported in the log
StartupsHandled ==
    Cardinality({ i \in DOMAIN Logged :
                    /\ Logged[i].kind = "received event"
                    /\ Logged[i].event = TypeShoveStartup })

\* main() has come to one of its checks with a configuration or an
\* environment that the check is there to refuse
ChecksFailed ==
    \/ InSteps("read config") /\ cli.configBytes.kind = "missing"
    \/ InSteps("unmarshal") /\ cli.configBytes.kind # "yaml"
    \/ InSteps("validate") /\ Len(Validate(cli.config)) > 0
    \/ InSteps("secret") /\ h.SecretKey = ""
    \/ /\ InSteps("port")
       /\ ~InSteps("unsetenv")
       /\ \/ Getenv(cli.environ, "SHOVE_PORT") = <<>>
          \/ ParseUint(Getenv(cli.environ, "SHOVE_PORT")).err # NoError

\* the lines that HandleEvent and Execute log
OfEvents(log) ==
    { i \in DOMAIN log :
        log[i].kind \in {"received event", "executing action", "run",
                         "command failed"} }

\* C23: when the configuration is read and valid and the environment checks
\* pass, the shove-startup pseudo-event is handled exactly once, before the
\* listener is open and before any delivery is handled, and all that it runs
\* is over before the first delivery; when a check fails, it is never
\* emitted.
C23_StartupOnceBeforeListening ==
    /\ StartupsHandled <= 1
    /\ cli.startups = StartupsHandled
    /\ (cli.pc \in {"listen", "serving"} \/ InSteps("listen")) =>
          /\ StartupsHandled = 1
          /\ cli.log[1] = Received(StartupGuid, ShoveStartupEvent)
    /\ cli.listening => StartupsHandled = 1
    /\ \A j \in DOMAIN cli.steps :
          cli.steps[j] \in {"listen", "deliver"} =>
             /\ \E i \in 1..(j - 1) : cli.steps[i] = "startup"
             /\ \A i \in j..Len(cli.steps) : cli.steps[i] # "startup"
    /\ \A i \in OfEvents(cli.log) : cli.log[i].guid = StartupGuid
    /\ \A i \in DOMAIN cli.last.ran :
          /\ cli.last.ran[i].guid # StartupGuid
          /\ cli.last.ran[i].event # TypeShoveStartup
    /\ cli.pc \in {"config", "unmarshal", "validate", "handler", "secret",
                   "port", "unsetenv", "startup"} =>
          StartupsHandled = 0 /\ OfEvents(Logged) = {}
    /\ ChecksFailed =>
          /\ cli.pc = "exited"
          /\ StartupsHandled = 0
          /\ OfEvents(Logged) = {}

\* the pseudo-event has run commands, and a delivery after it has run one
C23_Witness ==
    /\ cli.pc = "serving"
    /\ cli.deliveries = 2
    /\ \E i \in DOMAIN Logged :
          Logged[i].kind = "run" /\ Logged[i].guid = StartupGuid
    /\ \E i \in DOMAIN cli.last.ran : cli.last.ran[i].kind = "run"

\* main() has ended at its last check
C23_WitnessChecksFailed ==
    /\ ChecksFailed
    /\ cli.steps[Len(cli.steps)] = "port"
    /\ cli.exit = 1

\* the variables that main() reads
ShoveVariables == {"SHOVE_SECRET", "SHOVE_CONFIG", "SHOVE_PORT"}

\* the commands run so far
Runs == { i \in DOMAIN Logged : Logged[i].kind = "run" }

\* C24: no command run by an action, for shove-startup or for a delivery,
\* has SHOVE_SECRET, SHOVE_CONFIG or SHOVE_PORT in its environment: the
\* three are unset after they are read and before the first action can run.
C24_CommandsNeverSeeShoveVariables ==
    /\ \A i \in Runs : DOMAIN Logged[i].env \cap ShoveVariables = {}
    /\ Runs # {} => InSteps("unsetenv")
    /\ InSteps("unsetenv") =>
          /\ DOMAIN cli.environ \cap ShoveVariables = {}
          /\ h.SecretKey # ""
          /\ cli.port > 0
    /\ \A j \in DOMAIN cli.steps :
          cli.steps[j] = "unsetenv" =>
             /\ \A step \in {"read config", "secret", "port"} :
                   \E i \in 1..(j - 1) : cli.steps[i] = step
             /\ \A i \in 1..(j - 1) : cli.steps[i] \notin {"startup", "deliver"}

\* SHOVE_CONFIG, SHOVE_SECRET and SHOVE_PORT were all set, and commands have
\* run for the pseudo-event and for a push, with the rest of the environment
\* and the variables of the event
C24_Witness ==
    /\ cli.config = Configuration(<<ActCheckout, ActBoot, ActHello>>)
    /\ \E i \in Runs : Logged[i].guid = StartupGuid
    /\ \E i \in Runs :
          /\ Logged[i].guid # StartupGuid
          /\ {"PATH", "SHOVE_VAR_REF"} \subseteq DOMAIN Logged[i].env

\* the triggers of a configuration, as <<action, trigger>> indices from 0,
\* that list an event type starting with "shove-" and a repository
PseudoWithRepos(c) ==
    { at \in (0..(Len(c.Actions) - 1)) \X (0..1) :
        /\ at[2] + 1 \in DOMAIN c.Actions[at[1] + 1].Triggers
        /\ LET t == c.Actions[at[1] + 1].Triggers[at[2] + 1]
           IN  /\ \E i \in DOMAIN t.EventTypes :
                     HasPrefix(t.EventTypes[i], ShovePrefix)
               /\ Len(t.FullRepoNames) > 0 }

PseudoWithReposErrors(errs) ==
    { i \in DOMAIN errs :
        errs[i].kind = "matches pseudo-events, but also requires a match on repository names" }

\* C25: Validate reports an error for every trigger that lists a "shove-"
\* pseudo-event together with a repository name, and main() then exits
\* before it emits shove-startup, runs an action or listens.
C25_PseudoEventWithRepositoriesRefused ==
    InSteps("validate") =>
       LET bad == PseudoWithRepos(cli.config)
       IN  /\ \A at \in bad :
                 \E i \in PseudoWithReposErrors(cli.errs) :
                    cli.errs[i].aIdx = at[1] /\ cli.errs[i].tIdx = at[2]
           /\ Cardinality(PseudoWithReposErrors(cli.errs)) = Cardinality(bad)
           /\ bad # {} =>
                 /\ cli.pc = "exited"
                 /\ cli.exit = 1
                 /\ cli.steps[Len(cli.steps)] = "validate"
                 /\ cli.startups = 0
                 /\ OfEvents(Logged) = {}
                 /\ ~cli.listening

\* main() has ended at a configuration with two such triggers, the one of
\* them for shove-startup alone
C25_Witness ==
    /\ cli.pc = "exited"
    /\ Cardinality(PseudoWithRepos(cli.config)) = 2
    /\ Cardinality(PseudoWithReposErrors(cli.errs)) = 2
    /\ \E a \in DOMAIN cli.config.Actions :
          \E t \in DOMAIN cli.config.Actions[a].Triggers :
             cli.config.Actions[a].Triggers[t] =
                Trigger(<<TypeShoveStartup>>, <<RepoBar, RepoBaz>>)

\* a list of strings has an item equal to val
Lists(list, val) == \E i \in DOMAIN list : list[i] = val

\* C27: an event with a repository name matches an action if and only if
\* one single trigger of the action lists both its type and its repository;
\* an event with an empty repository name matches if and only if some
\* trigger lists its type, whatever repositories that trigger lists.
C27_MatchesWithinOneTrigger ==
    probe.pc = "returned" =>
       LET triggers == probe.action.Triggers
           type == EventType(probe.event)
           repo == FullRepoName(probe.event)
       IN  IF repo # <<>>
           THEN probe.result <=>
                   \E t \in DOMAIN triggers :
                      /\ Lists(triggers[t].EventTypes, type)
                      /\ Lists(triggers[t].FullRepoNames, repo)
           ELSE probe.result <=>
                   \E t \in DOMAIN triggers :
                      Lists(triggers[t].EventTypes, type)

\* the event type is listed in one trigger and the repository in another
\* one only, and the event does not match
C27_Witness ==
    /\ probe.pc = "returned"
    /\ ~probe.result
    /\ FullRepoName(probe.event) = RepoBar
    /\ \E t, u \in DOMAIN probe.action.Triggers :
          /\ Lists(probe.action.Triggers[t].EventTypes, TypePush)
          /\ Lists(probe.action.Triggers[u].FullRepoNames, RepoBar)

\* the pseudo-event matches a trigger that lists repositories
C27_WitnessPseudoEvent ==
    /\ probe.pc = "returned"
    /\ probe.result
    /\ probe.event = ShoveStartupEvent
    /\ \A t \in DOMAIN probe.action.Triggers :
          Len(probe.action.Triggers[t].FullRepoNames) > 0

\* the names of the actions that a part of the log says were executed for
\* the event of a guid, in the order of the log
ExecutedFor(log, guid) ==
    LET started == SelectSeq(log, LAMBDA x : /\ x.kind = "executing action"
                                            /\ x.guid = guid)
    IN  [i \in 1..Len(started) |-> started[i].action]

\* the names of the actions of a configuration that match an event, in the
\* order of the configuration
MatchingActions(c, event) ==
    LET matching == SelectSeq(c.Actions, LAMBDA a : Matches(a, event))
    IN  [i \in 1..Len(matching) |-> matching[i].Name]

\* the commands that a part of the log says were run
CommandsRun(log) ==
    LET run == SelectSeq(log, LAMBDA x : x.kind = "run")
    IN  [i \in 1..Len(run) |-> run[i].command]

MatchingCommands(c, event) ==
    LET matching == SelectSeq(c.Actions, LAMBDA a : Matches(a, event))
    IN  [i \in 1..Len(matching) |-> matching[i].Command]

\* C28: for each event that HandleEvent handles, the actions executed are
\* exactly the ones that match it, each once and in the order of the
\* configuration, whether their commands fail or not; an action that does
\* not match is never executed.
C28_ExactlyTheMatchingActionsInOrder ==
    /\ InSteps("startup") =>
          /\ ExecutedFor(cli.log, StartupGuid) =
                MatchingActions(cli.config, ShoveStartupEvent)
          /\ CommandsRun(SelectSeq(cli.log,
                                   LAMBDA x : x.guid = StartupGuid)) =
                MatchingCommands(cli.config, ShoveStartupEvent)
    /\ cli.deliveries > 0 =>
          LET calls == ServeHTTP(h, cli.last.req).calls
          IN  IF calls = <<>> \/ ~ImplementsEvent(calls[1].event)
              THEN cli.last.ran = <<>>
              ELSE /\ Len(calls) = 1
                   /\ \A i \in DOMAIN cli.last.ran :
                         cli.last.ran[i].guid = calls[1].guid
                   /\ ExecutedFor(cli.last.ran, calls[1].guid) =
                         MatchingActions(cli.config, calls[1].event)
                   /\ CommandsRun(cli.last.ran) =
                         MatchingCommands(cli.config, calls[1].event)

\* a push to foo/bar with three actions configured: the first one is
\* executed and its command fails, the second one does not match and the
\* third one is executed
C28_Witness ==
    /\ cli.config = Configuration(<<ActCheckout, ActBoot, ActHello>>)
    /\ ExecutedFor(cli.last.ran, "first") = <<"checkout", "hello">>
    /\ \E i \in DOMAIN cli.last.ran :
          /\ cli.last.ran[i].kind = "command failed"
          /\ cli.last.ran[i].action = "checkout"

\* the last delivery was a POST of type ping whose body was read and whose
\* signature is the one of the secret key
AuthenticatedPing ==
    /\ cli.deliveries > 0
    /\ cli.last.req.Method = "POST"
    /\ cli.last.req.ReadErr = NoError
    /\ cli.last.req.EventType = "ping"
    /\ \/ TrimSpace(cli.last.req.Hub) =
             SignGitHub(h.SecretKey, cli.last.req.Body)
       \/ /\ TrimSpace(cli.last.req.Hub) = <<>>
          /\ TrimSpace(cli.last.req.Gitea) =
                SignGitea(h.SecretKey, cli.last.req.Body)

\* C29: in the command-line program an authenticated ping is answered with
\* 204 and executes no action, whatever is configured: the event of the
\* minimal decoder is not an Event of the program and HandleEvent returns
\* at once.
C29_PingAcknowledgedButIgnored ==
    AuthenticatedPing =>
       LET calls == ServeHTTP(h, cli.last.req).calls
       IN  /\ cli.last.status = StatusNoContent
           /\ Len(calls) = 1
           /\ calls[1].event = MinimalPingEvent
           /\ ~ImplementsEvent(calls[1].event)
           /\ cli.last.ran = <<>>

\* a ping is acknowledged by a program with actions that the pseudo-event
\* and pushes do execute
C29_Witness ==
    /\ AuthenticatedPing
    /\ cli.last.status = StatusNoContent
    /\ cli.config = Configuration(<<ActCheckout, ActBoot, ActHello>>)
    /\ Runs # {}
    /\ cli.deliveries = 1

====
